---- MODULE Spec2Model ----
(***************************************************************************)
(* The concurrent probing engine of dnsbrute (src/dnsbrute.py) and its      *)
(* report plugin (src/plugins/report_plugin.py).                           *)
(*                                                                         *)
(* Spec      one scan session as execute_scan drives it: the Bruteforcer   *)
(*           context manager, run() in the main thread, the probes in the  *)
(*           ThreadPoolExecutor's workers, and the SIGINT handler.         *)
(* SpecRL    threads calling Bruteforcer._validate_batch against the       *)
(*           session's one RateLimiter, with a clock.                      *)
(* SpecRLSeq the same with a single caller.                                *)
(* SpecCache one client of a LimitedSizeCache: membership tests, gets and  *)
(*           puts performed one after the other.                           *)
(* SpecProbe two executor workers running _validate_target against the     *)
(*           session's one LimitedSizeCache, interleaved between the       *)
(*           steps of the cache's methods.                                 *)
(* SpecLoad  Spec started on a wordlist file whose lines may fail the      *)
(*           word filter.                                                  *)
(* SpecHook  one call of PluginManager.run_hook over a list of plugins.    *)
(* SpecStore HistoryManager.add_scan and get_scans on the scans table.     *)
(* SpecConfig execute_scan from the wordlist file check through Config     *)
(*           to the start of the workers.                                  *)
(* SpecFair  Spec with two workers, the main thread and the workers        *)
(*           scheduled fairly.                                             *)
(* SpecRerun Spec with run() called again on the same Bruteforcer.         *)
(* SpecReport the report plugin's pre_scan, on_result and post_scan hooks  *)
(*           called in any order.                                          *)
(* SpecWrite concurrent calls of WriteBuffer._write_file.                  *)
(* SpecBuffer WriteBuffer.write and stop against the worker thread,        *)
(*           scheduled fairly.                                             *)
(*                                                                         *)
(* Bruteforcer._load_wordlist and Bruteforcer._validate_target are called  *)
(* in src/dnsbrute.py but not defined there; they are modelled from        *)
(* spec.md (4.1, 4.4).  Bruteforcer.__init__ is taken to have completed:   *)
(* the config object carries rate_limit and batch_size.                    *)
(***************************************************************************)
EXTENDS Integers, Sequences, FiniteSets, TLC

\* ------------------------------------------------------------- bounds
MaxWords == 3
MaxBatch == 2
MaxThreads == 2
\* SpecRL: the clock's last tick, the largest period and max_requests, the
\* most concurrent callers of _validate_batch, the longest batch of a call
MaxTime == 4
MaxPeriod == 2
MaxRequests == 2
MaxCallers == 2
MaxCallWords == 3
\* SpecLoad: the most lines of the wordlist file
MaxLines == 2
\* SpecStore: the most rows of the scans table
MaxScans == 3
\* SpecHook: the most registered plugins, the largest value handed to run_hook
MaxPlugins == 3
MaxData == 2
\* SpecCache: the largest max_size, the keys 1..MaxKeys, the operations of
\* one behaviour
MaxCacheSize == 2
MaxKeys == 3
MaxOps == 5
\* SpecProbe: the targets 1..MaxTargets, the largest config.retries, the
\* probes the two workers are handed in one behaviour
MaxTargets == 2
MaxRetries == 1
MaxProbes == 3

\* ---------------------------------------------------------- constants
\* Status codes a probe may produce: unreachable, accepted, rejected.
StatusCodes == {0, 200, 404}
VALID_STATUS_CODES == {200, 201, 202, 203, 204, 301, 302, 307, 308}

VARIABLES
    \* --- configuration and environment, fixed by Init
    wordlist,        \* what _load_wordlist returns: the filtered words, in order
    batch_size,      \* config.batch_size
    threads,         \* config.threads (max_workers)
    asdict_ok,       \* whether dataclasses.asdict accepts the config object
    \* --- Bruteforcer fields
    running,         \* self._running
    start_time,      \* self._start_time is set
    total_requests,  \* self._total_requests
    results,         \* self.results
    history,         \* rows of the scans table (HistoryManager)
    \* --- main thread
    pc,              \* position of the main thread
    exc,             \* exception in flight / raised by run ("none" if none)
    returned,        \* what run() returned: [ok, value]
    current_index,   \* BatchProcessor.current_index
    batch,           \* the batch the for loop holds
    sub_idx,         \* words of batch already submitted
    futures,         \* task ids of the current batch's futures, in order
    fut_idx,         \* futures already collected
    \* --- executor
    tasks,           \* every submitted work item, in submission order:
                     \* [word, batch, state, status, found, raised]
    \* --- history variables (observers, not program state)
    yielded,         \* the batches BatchProcessor has yielded
    checked,         \* batches whose cancellation check (line 763) passed
    cancel,          \* what was true when the handler cleared the flag
    \* --- rate limiter and its callers
    max_requests, period, requests, now, callers, rl,
    \* --- LimitedSizeCache (self._cache) and its observers
    cache,           \* the OrderedDict: entries [key, value], oldest first
    max_size,        \* LimitedSizeCache.max_size
    stamp,           \* history: key -> number of the operation that last got or put it
    ref,             \* history: a reference LRU map fed the same operations
    nops,            \* history: operations performed so far
    last,            \* history: the last operation and what it returned
    \* --- workers running _validate_target
    retries,         \* config.retries
    pw,              \* per worker: position in _validate_target and its locals
    handed,          \* probes handed to the workers so far
    netprobes,       \* history: target -> probes of it that went to the network
    \* --- the scan's input and its hooks
    raw,             \* the words of the wordlist file, in order
    pre_cfg,         \* batch_size of the config the pre_scan pipeline returned (0: none yet)
    hook_calls,      \* history: run_hook calls made so far, per hook name
    run_no,          \* history: run() calls made on the Bruteforcer so far
    \* --- PluginManager.run_hook
    plugins,         \* self.plugins: what each plugin's hook does, in registration order
    hk,              \* one run_hook call: position, data, and who was invoked with what
    \* --- HistoryManager
    scans,           \* the rows of the scans table, in insertion order
    seq_id,          \* the table's AUTOINCREMENT sequence
    listed,          \* the last get_scans call: [limit, n (rows stored then), rows]
    \* --- Config
    cfg_in,          \* the threads and mode handed to Config(...)
    cfg_out,         \* how building the configuration ended, and what followed
    \* --- the report plugin (src/plugins/report_plugin.py)
    rp,              \* Plugin: current_scan, metrics
    rcall,           \* history: the last hook call on the plugin, its argument and value
    \* --- WriteBuffer and the files it writes
    wq,              \* WriteBuffer: running, the queue, the worker and its batch
    files,           \* the directory: path -> what it holds
    wcalls,          \* the _write_file calls in progress or ended
    lock             \* self.lock: the call that holds it (0: free)

engineVars == <<wordlist, batch_size, threads, asdict_ok, running, start_time,
                total_requests, results, history, pc, exc, returned,
                current_index, batch, sub_idx, futures, fut_idx, tasks,
                yielded, checked, cancel, raw, pre_cfg, hook_calls, run_no>>
scanVars == <<raw, pre_cfg, hook_calls, run_no>>
limiterVars == <<max_requests, period, requests, now, callers, rl>>
cacheVars == <<cache, max_size, stamp, ref, nops, last>>
probeVars == <<retries, pw, handed, netprobes>>
hookVars == <<plugins, hk>>
storeVars == <<scans, seq_id, listed>>
configVars == <<cfg_in, cfg_out>>
reportVars == <<rp, rcall>>
bufferVars == <<wq, files, wcalls, lock>>
pluginVars == <<reportVars, bufferVars>>
extVars == <<hookVars, storeVars, configVars, pluginVars>>
vars == <<engineVars, limiterVars, cacheVars, probeVars, extVars>>

\* ------------------------------------------------------------ helpers
Min(a, b) == IF a < b THEN a ELSE b
Max(a, b) == IF a > b THEN a ELSE b

RECURSIVE Concat(_)
Concat(ss) == IF ss = <<>> THEN <<>> ELSE Head(ss) \o Concat(Tail(ss))

\* Words are sequences of characters.  The syntactic filter of the loader:
\* the whole word is one or more characters of \w (letters, digits,
\* underscore), "." or "-".
WordChars == {"a", "b", "w", "d", "1", "_"}
AnyWordMatches(w) == TRUE
Matches(w) == w # <<>> /\ \A i \in 1..Len(w) : w[i] \in WordChars \cup {".", "-"}
\* _load_wordlist: the words of the file that pass the filter, in order
LoadedWords(r) == SelectSeq(r, Matches)

\* n distinct wordlist entries, all of which pass the filter.
ValidWords == << <<"a">>, <<"b", "1">>, <<"a", ".", "b">>, <<"_", "-", "1">>,
                <<"w">>, <<"d", "1">> >>
WordlistOf(n) == [i \in 1..n |-> ValidWords[i]]
\* Lines of a wordlist file, some of which do not pass: "a", "a.b-1",
\* "bad word!", and the empty line.
RawWords == {<<"a">>, <<"a", ".", "b", "-", "1">>,
             <<"b", "a", "d", " ", "w", "!">>, <<>>}

NoReturn == [ok |-> FALSE, value |-> <<>>]
NoCancel == [set |-> FALSE, begun |-> 0, checked |-> 0, nresults |-> 0, ntasks |-> 0]

\* ------------------------------------------------------ BatchProcessor
\* wordlist[current_index : current_index + batch_size]
BatchSliceShort(wl, idx, bs) == SubSeq(wl, idx + 1, Min(idx + bs, Len(wl)) - 1)
BatchSlice(wl, idx, bs) == SubSeq(wl, idx + 1, Min(idx + bs, Len(wl)))

\* __next__ raises StopIteration
Exhausted(wl, idx) == idx >= Len(wl)

\* ------------------------------------------------------------- Result
Found(status) == status \in VALID_STATUS_CODES
MkResult(word, status) == [target |-> word, status_code |-> status]

\* ------------------------------------------------------------ futures
TaskIds == 1..Len(tasks)
Queued == {i \in TaskIds : tasks[i].state = "queued"}
Running == {i \in TaskIds : tasks[i].state = "running"}
AllDone == \A i \in TaskIds : tasks[i].state = "done"
\* future.result() returns or raises only once the work item has completed
FutureDoneNoWait(i) == TRUE
FutureDone(i) == tasks[i].state = "done"

\* Batches of which at least one probe has been submitted.
BatchesBegun == IF tasks = <<>> THEN 0 ELSE tasks[Len(tasks)].batch

\* --------------------------------------------------------- _save_history
\* (run: the run() call the row was saved for, an observer's field)
ScanRecord ==
    [run |-> run_no,
     total_requests |-> total_requests,
     found_count |-> Len(results),
     config |-> batch_size,
     results |-> results]

\* _save_history returns at once when no run has started; otherwise it
\* builds the record (asdict on the config) and inserts it (db_ok).
SaveRaises(db_ok) == start_time /\ (~asdict_ok \/ ~db_ok)
SaveHistory(db_ok) ==
    IF start_time /\ asdict_ok /\ db_ok THEN Append(history, ScanRecord) ELSE history

\* --------------------------------------------------------- RateLimiter
Range(f) == {f[i] : i \in DOMAIN f}
Oldest(reqs) == CHOOSE r \in Range(reqs) : \A q \in Range(reqs) : r <= q

\* can_proceed: [req for req in self.requests if now - req < self.period]
Prune(reqs, t) == SelectSeq(reqs, LAMBDA r : t - r < period)
\* can_proceed: len(self.requests) < self.max_requests
UnderCapacity(reqs) == Len(reqs) < max_requests
\* wait_time: max(0, self.period - (now - oldest))
WaitTimeNone(reqs, t) == 0
WaitTime(reqs, t) == Max(0, period - (t - Oldest(reqs)))
\* wait_time as a whole (lines 94-100): 0 for an empty list, else the above
WaitTimeCall(reqs, t) == IF reqs = <<>> THEN 0 ELSE WaitTime(reqs, t)

\* Timestamps younger than period at time t.
FreshCount(reqs, t) == Cardinality({i \in 1..Len(reqs) : t - reqs[i] < period})

\* ---------------------------------------------------- LimitedSizeCache
Keys == 1..MaxKeys
\* What a cached Result is told apart by: its status code.
CacheValues == StatusCodes \ {0}

KeysOf(c) == {c[i].key : i \in 1..Len(c)}
\* __contains__ (line 406): key in self._cache
Has(c, k) == k \in KeysOf(c)
ValueOf(c, k) == (CHOOSE e \in Range(c) : e.key = k).value
\* OrderedDict.pop(key), for a key that is present
ODPop(c, k) == SelectSeq(c, LAMBDA e : e.key # k)
\* OrderedDict.popitem(last=False), for a dict that is not empty
ODPopFirst(c) == Tail(c)
\* OrderedDict.__setitem__: a new key goes to the end, a present key keeps
\* its place and takes the new value
ODSet(c, k, v) ==
    IF Has(c, k)
       THEN [i \in 1..Len(c) |-> IF c[i].key = k THEN [key |-> k, value |-> v] ELSE c[i]]
       ELSE Append(c, [key |-> k, value |-> v])
\* __setitem__, lines 415-417: which entry is removed before the insert
RoomAlways(c) == FALSE
NoRoom(c) == Len(c) >= max_size
MakeRoomNoRefresh(c, k) == IF NoRoom(c) /\ ~Has(c, k) THEN ODPopFirst(c) ELSE c
MakeRoom(c, k) ==
    IF Has(c, k) THEN ODPop(c, k)
    ELSE IF NoRoom(c) THEN ODPopFirst(c)
    ELSE c
\* __getitem__ (lines 408-411) for a present key, __setitem__ (413-418)
CacheGet(c, k) == ODSet(ODPop(c, k), k, ValueOf(c, k))
CachePut(c, k, v) == ODSet(MakeRoom(c, k), k, v)

NoOp == [op |-> "none", key |-> 0, ok |-> TRUE, value |-> 0, hit |-> FALSE, gone |-> {}]

\* A reference least-recently-used map, kept beside the cache: r maps a key
\* to its value (0: absent), st to the number of its last get or put.
RefKeys(r) == {k \in Keys : r[k] # 0}
RefPut(r, st, k, v) ==
    IF r[k] # 0 \/ Cardinality(RefKeys(r)) < max_size
       THEN [r EXCEPT ![k] = v]
       ELSE LET lru == CHOOSE j \in RefKeys(r) : \A i \in RefKeys(r) : st[j] <= st[i]
            IN [r EXCEPT ![lru] = 0, ![k] = v]

\* ----------------------------------------------------- _validate_target
Targets == 1..MaxTargets
\* The two executor workers.
Probers == {"w1", "w2"}
IdleProber == [pc |-> "idle", target |-> 0, sent |-> 0, err |-> "none",
               status |-> 0, found |-> FALSE, hit |-> FALSE]
\* A connection error or timeout is retried while fewer than config.retries
\* retries have been made; n is the number of requests already failed.
RetryAllowedOnceMore(n) == n <= retries
RetryAllowed(n) == n < retries
\* Only connection errors and timeouts are retried.
RetriedAny(kind) == TRUE
Retried(kind) == kind = "transient"
\* A probe whose request failed for good returns a failure Result.
AfterFailure(kind) == "done"

\* ready (an observer's field): the caller's last capacity check succeeded
\* and the caller has not slept since
IdleCaller == [pc |-> "idle", wake |-> 0, left |-> 0, snap |-> <<>>, hit |-> FALSE,
               ready |-> FALSE]

\* ---------------------------------------------------------------- Init
InitLimiterIdle ==
    /\ max_requests = 1
    /\ period = 1
    /\ requests = <<>>
    /\ now = 0
    /\ callers = 0
    /\ rl = [t \in 1..MaxCallers |-> IdleCaller]

InitCacheIdle ==
    /\ cache = <<>>
    /\ max_size = 1
    /\ stamp = [k \in Keys |-> 0]
    /\ ref = [k \in Keys |-> 0]
    /\ nops = 0
    /\ last = NoOp

InitProbeIdle ==
    /\ retries = 0
    /\ pw = <<>>
    /\ handed = 0
    /\ netprobes = <<>>

NoHookCalls == [pre_scan |-> 0, on_result |-> 0, post_scan |-> 0]

InitHookIdle ==
    /\ plugins = <<>>
    /\ hk = [pc |-> "idle"]

InitStoreIdle ==
    /\ scans = <<>>
    /\ seq_id = 0
    /\ listed = [limit |-> 0, n |-> 0, rows |-> <<>>]

InitConfigIdle ==
    /\ cfg_in = [threads |-> 0, mode |-> 0]
    /\ cfg_out = [pc |-> "idle"]

NoMetrics == [on |-> FALSE, total_requests |-> 0, found_count |-> 0, errors |-> 0]
NoScan == [scan |-> FALSE, metrics |-> NoMetrics, kept |-> 0]

InitReportIdle ==
    /\ rp = NoScan
    /\ rcall = [n |-> 0]

InitBufferIdle ==
    /\ wq = [pc |-> "idle"]
    /\ files = <<>>
    /\ wcalls = <<>>
    /\ lock = 0

InitPluginIdle == InitReportIdle /\ InitBufferIdle

InitExtIdle == InitHookIdle /\ InitStoreIdle /\ InitConfigIdle /\ InitPluginIdle

InitEngine ==
    /\ pre_cfg = 0
    /\ run_no = 0
    /\ hook_calls = NoHookCalls
    /\ start_time = FALSE
    /\ total_requests = 0
    /\ results = <<>>
    /\ history = <<>>
    /\ exc = "none"
    /\ returned = NoReturn
    /\ current_index = 0
    /\ batch = <<>>
    /\ sub_idx = 0
    /\ futures = <<>>
    /\ fut_idx = 0
    /\ tasks = <<>>
    /\ yielded = <<>>
    /\ checked = 0
    /\ cancel = NoCancel

Init ==
    /\ \E n \in 0..MaxWords : raw = WordlistOf(n)
    /\ wordlist = <<>>
    /\ InitExtIdle
    /\ batch_size \in 1..MaxBatch
    /\ threads \in 1..MaxThreads
    /\ asdict_ok \in BOOLEAN
    /\ pc = "constructed"
    /\ running = FALSE
    /\ InitEngine
    /\ InitLimiterIdle
    /\ InitCacheIdle
    /\ InitProbeIdle

\* ------------------------------------------------------- main thread
\* No statement of __enter__, run, __exit__ or the handler touches the
\* RateLimiter: its variables are unchanged by every step below.
\* __enter__: _create_session; on failure __exit__ is called and the error raised.
Enter ==
    /\ pc = "constructed"
    /\ \E ok \in BOOLEAN :
        /\ pc' = IF ok THEN "entered" ELSE "exited"
        /\ exc' = IF ok THEN "none" ELSE "SessionError"
    /\ UNCHANGED <<wordlist, batch_size, threads, asdict_ok, running, start_time,
                   total_requests, results, history, returned, current_index,
                   batch, sub_idx, futures, fut_idx, tasks, yielded, checked,
                   cancel, limiterVars, cacheVars, probeVars,
                   scanVars, extVars>>

\* run, lines 743-745
RunStart ==
    /\ pc = "entered"
    /\ start_time' = TRUE
    /\ running' = TRUE
    /\ total_requests' = 0
    /\ run_no' = run_no + 1
    /\ pc' = "load"
    /\ UNCHANGED <<wordlist, batch_size, threads, asdict_ok, results, history,
                   exc, returned, current_index, batch, sub_idx, futures,
                   fut_idx, tasks, yielded, checked, cancel, limiterVars, cacheVars, probeVars,
                   raw, pre_cfg, hook_calls, extVars>>

\* run, lines 749-751: wordlist = self._load_wordlist(); an empty list
\* raises ResourceError
LoadWordlist ==
    /\ pc = "load"
    /\ wordlist' = LoadedWords(raw)
    /\ IF wordlist' = <<>>
          THEN exc' = "ResourceError" /\ pc' = "finally"
          ELSE exc' = exc /\ pc' = "pre_scan"
    /\ UNCHANGED <<batch_size, threads, asdict_ok, running, start_time,
                   total_requests, results, history, returned, current_index,
                   batch, sub_idx, futures, fut_idx, tasks, yielded, checked,
                   cancel, limiterVars, cacheVars, probeVars,
                   scanVars, extVars>>

\* run, lines 754-761: asdict(self.config), the pre_scan hook (the config it
\* returns, whatever its batch_size, is bound to config_dict and not used
\* afterwards), BatchProcessor(wordlist, self.config.batch_size), the executor.
PreScan ==
    /\ pc = "pre_scan"
    /\ IF asdict_ok
          THEN /\ exc' = exc
               /\ pc' = "next_batch"
               /\ pre_cfg' \in 1..MaxBatch
               /\ hook_calls' = [hook_calls EXCEPT !.pre_scan = @ + 1]
          ELSE /\ exc' = "TypeError"
               /\ pc' = "finally"
               /\ UNCHANGED <<pre_cfg, hook_calls>>
    /\ current_index' = 0
    /\ UNCHANGED <<wordlist, batch_size, threads, asdict_ok, running, start_time,
                   total_requests, results, history, returned, batch, sub_idx,
                   futures, fut_idx, tasks, yielded, checked, cancel, raw, run_no,
                   limiterVars, cacheVars, probeVars, extVars>>

\* for batch in batch_processor: BatchProcessor.__next__
NextBatch ==
    /\ pc = "next_batch"
    /\ IF Exhausted(wordlist, current_index)
          THEN /\ pc' = "shutdown"
               /\ UNCHANGED <<batch, current_index, yielded>>
          ELSE /\ batch' = BatchSlice(wordlist, current_index, batch_size)
               /\ current_index' = current_index + batch_size
               /\ yielded' = Append(yielded, batch')
               /\ pc' = "check"
    /\ UNCHANGED <<wordlist, batch_size, threads, asdict_ok, running, start_time,
                   total_requests, results, history, exc, returned, sub_idx,
                   futures, fut_idx, tasks, checked, cancel, limiterVars, cacheVars, probeVars,
                   scanVars, extVars>>

\* if not self._running: break
CancellationObservedNever == FALSE
CancellationObserved == ~running

CheckRunning ==
    /\ pc = "check"
    /\ IF CancellationObserved
          THEN pc' = "shutdown" /\ UNCHANGED <<checked, sub_idx, futures>>
          ELSE /\ pc' = "submit"
               /\ checked' = checked + 1
               /\ sub_idx' = 0
               /\ futures' = <<>>
    /\ UNCHANGED <<wordlist, batch_size, threads, asdict_ok, running, start_time,
                   total_requests, results, history, exc, returned,
                   current_index, batch, fut_idx, tasks, yielded, cancel,
                   limiterVars, cacheVars, probeVars,
                   scanVars, extVars>>

\* executor.submit(self._validate_target, word), one word of the batch
Submit ==
    /\ pc = "submit"
    /\ IF sub_idx < Len(batch)
          THEN /\ tasks' = Append(tasks, [word |-> batch[sub_idx + 1],
                                          batch |-> Len(yielded),
                                          state |-> "queued",
                                          status |-> 0,
                                          found |-> FALSE,
                                          raised |-> FALSE])
               /\ futures' = Append(futures, Len(tasks) + 1)
               /\ sub_idx' = sub_idx + 1
               /\ UNCHANGED <<pc, fut_idx>>
          ELSE /\ pc' = "collect"
               /\ fut_idx' = 0
               /\ UNCHANGED <<tasks, futures, sub_idx>>
    /\ UNCHANGED <<wordlist, batch_size, threads, asdict_ok, running, start_time,
                   total_requests, results, history, exc, returned,
                   current_index, batch, yielded, checked, cancel, limiterVars, cacheVars, probeVars,
                   scanVars, extVars>>

\* except Exception as e (line 777): what a probe can raise is an Exception
CaughtNothing(i) == FALSE
Caught(i) == TRUE
\* if result.found (line 774)
RetainedWhenReturned(i) == ~tasks[i].raised
Retained(i) == ~tasks[i].raised /\ tasks[i].found

\* self.results.append(result), line 775
PutFirst(rs, r) == <<r>> \o rs
AppendResult(rs, r) == Append(rs, r)

\* for future in futures: future.result(); append when found; an exception
\* of the probe is logged (lines 771-778)
Collect ==
    /\ pc = "collect"
    /\ IF fut_idx < Len(futures)
          THEN LET i == futures[fut_idx + 1] IN
               /\ FutureDone(i)
               /\ results' = IF Retained(i)
                                THEN AppendResult(results, MkResult(tasks[i].word, tasks[i].status))
                                ELSE results
               /\ fut_idx' = fut_idx + 1
               /\ IF tasks[i].raised /\ ~Caught(i)
                     THEN pc' = "finally" /\ exc' = "ProbeError"
                     ELSE pc' = pc /\ exc' = exc
          ELSE /\ pc' = "next_batch"
               /\ UNCHANGED <<results, fut_idx, exc>>
    /\ UNCHANGED <<wordlist, batch_size, threads, asdict_ok, running, start_time,
                   total_requests, history, returned, current_index, batch,
                   sub_idx, futures, tasks, yielded, checked, cancel, limiterVars, cacheVars, probeVars,
                   scanVars, extVars>>

\* leaving the with block: executor.shutdown(wait=True)
Shutdown ==
    /\ pc = "shutdown"
    /\ AllDone
    /\ pc' = "post_scan"
    /\ UNCHANGED <<wordlist, batch_size, threads, asdict_ok, running, start_time,
                   total_requests, results, history, exc, returned,
                   current_index, batch, sub_idx, futures, fut_idx, tasks,
                   yielded, checked, cancel, limiterVars, cacheVars, probeVars,
                   scanVars, extVars>>

\* lines 781-784: the post_scan hook (its value is not used), return self.results
PostScan ==
    /\ pc = "post_scan"
    /\ hook_calls' = [hook_calls EXCEPT !.post_scan = @ + 1]
    /\ returned' = [ok |-> TRUE, value |-> results]
    /\ pc' = "finally"
    /\ UNCHANGED <<wordlist, batch_size, threads, asdict_ok, running, start_time,
                   total_requests, results, history, exc, current_index, batch,
                   sub_idx, futures, fut_idx, tasks, yielded, checked, cancel,
                   raw, pre_cfg, run_no, limiterVars, cacheVars, probeVars, extVars>>

\* lines 789-791: self._running = False; self._save_history().  An
\* exception of _save_history replaces the return value or the exception
\* in flight.
Finally ==
    /\ pc = "finally"
    /\ running' = FALSE
    /\ \E db_ok \in BOOLEAN :
        /\ history' = SaveHistory(db_ok)
        /\ IF SaveRaises(db_ok)
              THEN /\ exc' = (IF asdict_ok THEN "HistoryError" ELSE "TypeError")
                   /\ returned' = NoReturn
              ELSE UNCHANGED <<exc, returned>>
    /\ pc' = "finished"
    /\ UNCHANGED <<wordlist, batch_size, threads, asdict_ok, start_time,
                   total_requests, results, current_index, batch, sub_idx,
                   futures, fut_idx, tasks, yielded, checked, cancel, limiterVars, cacheVars, probeVars,
                   scanVars, extVars>>

\* __exit__, lines 662-671: close the session, _running = False, _save_history()
Exit ==
    /\ pc = "finished"
    /\ running' = FALSE
    /\ \E db_ok \in BOOLEAN :
        /\ history' = SaveHistory(db_ok)
        /\ exc' = IF SaveRaises(db_ok)
                     THEN (IF asdict_ok THEN "HistoryError" ELSE "TypeError")
                     ELSE exc
    /\ pc' = "exited"
    /\ UNCHANGED <<wordlist, batch_size, threads, asdict_ok, start_time,
                   total_requests, results, returned, current_index, batch,
                   sub_idx, futures, fut_idx, tasks, yielded, checked, cancel,
                   limiterVars, cacheVars, probeVars,
                   scanVars, extVars>>

\* ------------------------------------------------------ SIGINT handler
\* _signal_handler, lines 649-651: what it leaves in self._running
AfterSignalFlipped(r) == ~r
AfterSignal(r) == IF r THEN FALSE ELSE r

\* _signal_handler, lines 647-651; runs between any two steps
Interrupt ==
    /\ pc # "exited"
    /\ running' = AfterSignal(running)
    /\ cancel' = IF running /\ ~cancel.set
                     THEN [set |-> TRUE, begun |-> BatchesBegun,
                           checked |-> checked, nresults |-> Len(results),
                           ntasks |-> Len(tasks)]
                     ELSE cancel
    /\ UNCHANGED <<wordlist, batch_size, threads, asdict_ok, start_time,
                   total_requests, results, history, pc, exc, returned,
                   current_index, batch, sub_idx, futures, fut_idx, tasks,
                   yielded, checked, limiterVars, cacheVars, probeVars,
                   scanVars, extVars>>

\* ---------------------------------------------------- executor workers
\* The executor has a worker thread that is not running a work item.
NoWorkerFree == FALSE
WorkerFree == Cardinality(Running) < threads

\* A free worker thread takes the oldest queued work item.
StartProbe ==
    /\ Queued # {}
    /\ WorkerFree
    /\ LET i == CHOOSE j \in Queued : \A k \in Queued : j <= k IN
       tasks' = [tasks EXCEPT ![i].state = "running"]
    /\ UNCHANGED <<wordlist, batch_size, threads, asdict_ok, running, start_time,
                   total_requests, results, history, pc, exc, returned,
                   current_index, batch, sub_idx, futures, fut_idx, yielded,
                   checked, cancel, limiterVars, cacheVars, probeVars,
                   scanVars, extVars>>

\* _validate_target(word) completes: a Result with some status code, or an
\* exception that the future keeps.
FinishProbe(i) ==
    /\ tasks[i].state = "running"
    /\ \/ \E s \in StatusCodes :
              tasks' = [tasks EXCEPT ![i].state = "done", ![i].status = s,
                                     ![i].found = Found(s)]
       \/ tasks' = [tasks EXCEPT ![i].state = "done", ![i].raised = TRUE]
    /\ UNCHANGED <<wordlist, batch_size, threads, asdict_ok, running, start_time,
                   total_requests, results, history, pc, exc, returned,
                   current_index, batch, sub_idx, futures, fut_idx, yielded,
                   checked, cancel, limiterVars, cacheVars, probeVars,
                   scanVars, extVars>>

Next ==
    \/ Enter
    \/ RunStart
    \/ LoadWordlist
    \/ PreScan
    \/ NextBatch
    \/ CheckRunning
    \/ Submit
    \/ Collect
    \/ Shutdown
    \/ PostScan
    \/ Finally
    \/ Exit
    \/ Interrupt
    \/ StartProbe
    \/ \E i \in TaskIds : FinishProbe(i)

Spec == Init /\ [][Next]_vars

\* The steps of the main thread.
MainStep ==
    \/ Enter
    \/ RunStart
    \/ LoadWordlist
    \/ PreScan
    \/ NextBatch
    \/ CheckRunning
    \/ Submit
    \/ Collect
    \/ Shutdown
    \/ PostScan
    \/ Finally
    \/ Exit

\* The same session with the threads scheduled: the main thread goes on
\* whenever it is not blocked, a free worker takes a queued work item, and
\* every probe that was started terminates.
InitFair == Init /\ threads = 2

SpecFair ==
    /\ InitFair
    /\ [][Next]_vars
    /\ WF_vars(MainStep)
    /\ WF_vars(StartProbe)
    /\ WF_vars(\E i \in TaskIds : FinishProbe(i))

\* ---------------------------------------------- run() called once more
MaxRuns == 2

\* run() has returned or raised and the owner of the Bruteforcer calls it
\* again (lines 743-745): a new start time, the flag, the request counter;
\* self.results is assigned in __init__ only (line 631).  The locals of the
\* earlier call and its executor are gone.
RunAgain ==
    /\ pc = "finished"
    /\ run_no < MaxRuns
    /\ start_time' = TRUE
    /\ running' = TRUE
    /\ total_requests' = 0
    /\ run_no' = run_no + 1
    /\ pc' = "load"
    /\ exc' = "none"
    /\ returned' = NoReturn
    /\ wordlist' = <<>>
    /\ current_index' = 0
    /\ batch' = <<>>
    /\ sub_idx' = 0
    /\ futures' = <<>>
    /\ fut_idx' = 0
    /\ tasks' = <<>>
    /\ yielded' = <<>>
    /\ checked' = 0
    /\ cancel' = NoCancel
    /\ pre_cfg' = 0
    /\ hook_calls' = NoHookCalls
    /\ UNCHANGED <<batch_size, threads, asdict_ok, results, history, raw,
                   limiterVars, cacheVars, probeVars, extVars>>

InitRerun ==
    /\ Init
    /\ Len(raw) \in 1..2
    /\ batch_size = 1
    /\ threads = 1
    /\ asdict_ok

NextRerun == Next \/ RunAgain

SpecRerun == InitRerun /\ [][NextRerun]_vars

\* The same session started on a wordlist file whose lines need not pass
\* the loader's filter.
InitLoad ==
    /\ raw \in UNION {[1..n -> RawWords] : n \in 0..MaxLines}
    /\ wordlist = <<>>
    /\ InitExtIdle
    /\ batch_size \in 1..MaxBatch
    /\ threads = 1
    /\ asdict_ok = TRUE
    /\ pc = "constructed"
    /\ running = FALSE
    /\ InitEngine
    /\ InitLimiterIdle
    /\ InitCacheIdle
    /\ InitProbeIdle

SpecLoad == InitLoad /\ [][Next]_vars

\* ===================================================================
\* Bruteforcer._validate_batch against the shared RateLimiter (SpecRL)
\* ===================================================================
Callers == 1..callers

Goto(t, p) == [rl EXCEPT ![t].pc = p]

\* A thread calls _validate_batch(batch) with a batch of n words.
RLCall(t) ==
    /\ rl[t].pc = "idle"
    /\ \E n \in 1..MaxCallWords :
        rl' = [rl EXCEPT ![t] = [pc |-> "wt1_test", wake |-> 0, left |-> n,
                                 snap |-> <<>>, hit |-> FALSE, ready |-> FALSE]]
    /\ UNCHANGED <<engineVars, extVars, cacheVars, probeVars, max_requests, period, requests, now, callers>>

\* wait_time, lines 96-97: if not self.requests: return 0
\* (line 717: wait = wait_time(); line 723: sleep(wait_time()))
RLWaitTest(t) ==
    /\ rl[t].pc \in {"wt1_test", "wt2_test"}
    /\ rl' = IF requests = <<>>
                THEN Goto(t, IF rl[t].pc = "wt1_test" THEN "cp_filter" ELSE "probe")
                ELSE Goto(t, IF rl[t].pc = "wt1_test" THEN "wt1_min" ELSE "wt2_min")
    /\ UNCHANGED <<engineVars, extVars, cacheVars, probeVars, max_requests, period, requests, now, callers>>

\* wait_time, lines 98-100: min(self.requests) raises ValueError when the
\* list has been emptied since line 96; otherwise sleep for the value
\* (lines 718-719: only if > 0; line 723: always).
RLWaitMin(t) ==
    /\ rl[t].pc \in {"wt1_min", "wt2_min"}
    /\ IF requests = <<>>
          THEN rl' = Goto(t, "failed")
          ELSE LET w == WaitTime(requests, now) IN
               IF rl[t].pc = "wt1_min" /\ w = 0
                  THEN rl' = Goto(t, "cp_filter")
                  ELSE rl' = [rl EXCEPT ![t].pc = IF rl[t].pc = "wt1_min"
                                                     THEN "sleep1" ELSE "sleep2",
                                        ![t].wake = now + w]
    /\ UNCHANGED <<engineVars, extVars, cacheVars, probeVars, max_requests, period, requests, now, callers>>

\* time.sleep returns, no earlier than asked
RLWake(t) ==
    /\ rl[t].pc \in {"sleep1", "sleep2"}
    /\ now >= rl[t].wake
    /\ rl' = [rl EXCEPT ![t].pc = IF rl[t].pc = "sleep1" THEN "cp_filter" ELSE "probe",
                         ![t].ready = FALSE]
    /\ UNCHANGED <<engineVars, extVars, cacheVars, probeVars, max_requests, period, requests, now, callers>>

\* can_proceed, lines 85-87: the comprehension builds the pruned list
RLFilter(t) ==
    /\ rl[t].pc = "cp_filter"
    /\ rl' = [rl EXCEPT ![t].pc = "cp_store", ![t].snap = Prune(requests, now)]
    /\ UNCHANGED <<engineVars, extVars, cacheVars, probeVars, max_requests, period, requests, now, callers>>

\* can_proceed, line 87: self.requests = <the pruned list>
RLStore(t) ==
    /\ rl[t].pc = "cp_store"
    /\ requests' = rl[t].snap
    /\ rl' = [rl EXCEPT ![t].pc = "cp_len", ![t].snap = <<>>]
    /\ UNCHANGED <<engineVars, extVars, cacheVars, probeVars, max_requests, period, now, callers>>

\* can_proceed, line 88, and line 721: if not can_proceed(): ... sleep(wait_time())
RLLen(t) ==
    /\ rl[t].pc = "cp_len"
    /\ rl' = [rl EXCEPT ![t].pc = IF UnderCapacity(requests) THEN "probe" ELSE "wt2_test",
                         ![t].ready = UnderCapacity(requests)]
    /\ UNCHANGED <<engineVars, extVars, cacheVars, probeVars, max_requests, period, requests, now, callers>>

\* line 725: _validate_target(word) returns a Result, from the network or,
\* once the session has completed a probe, from the cache; or it raises and
\* ends the call
RLProbe(t) ==
    /\ rl[t].pc = "probe"
    /\ \/ rl' = [rl EXCEPT ![t].pc = "add", ![t].hit = FALSE]
       \/ /\ total_requests > 0
          /\ rl' = [rl EXCEPT ![t].pc = "add", ![t].hit = TRUE]
       \/ rl' = [rl EXCEPT ![t].pc = "failed", ![t].hit = FALSE]
    /\ UNCHANGED <<engineVars, extVars, cacheVars, probeVars, max_requests, period, requests, now, callers>>

\* lines 726-737: add_request(), _total_requests += 1, the on_result hook,
\* the found result kept in the call's own list, then the flag is tested
RLAdd(t) ==
    /\ rl[t].pc = "add"
    /\ requests' = Append(requests, now)
    /\ total_requests' = total_requests + 1
    /\ hook_calls' = [hook_calls EXCEPT !.on_result = @ + 1]
    /\ rl' = IF running /\ rl[t].left > 1
                THEN [rl EXCEPT ![t].pc = "wt1_test", ![t].left = rl[t].left - 1,
                                ![t].hit = FALSE, ![t].ready = FALSE]
                ELSE [rl EXCEPT ![t].pc = "done", ![t].left = 0, ![t].hit = FALSE,
                                ![t].ready = FALSE]
    /\ UNCHANGED <<wordlist, batch_size, threads, asdict_ok, running, start_time,
                   results, history, pc, exc, returned, current_index, batch,
                   sub_idx, futures, fut_idx, tasks, yielded, checked, cancel,
                   max_requests, period, now, callers, cacheVars, probeVars,
                   raw, pre_cfg, run_no, extVars>>

\* time.time() advances
Tick ==
    /\ now < MaxTime
    /\ now' = now + 1
    /\ UNCHANGED <<engineVars, extVars, cacheVars, probeVars, max_requests, period, requests, callers, rl>>

InitRL ==
    /\ wordlist = <<>>
    /\ raw = <<>>
    /\ InitExtIdle
    /\ batch_size = 1
    /\ threads = 1
    /\ asdict_ok = TRUE
    /\ pc = "batch_calls"
    /\ running \in BOOLEAN
    /\ InitEngine
    /\ max_requests \in 1..MaxRequests
    /\ period \in 1..MaxPeriod
    /\ requests = <<>>
    /\ now = 0
    /\ callers \in 1..MaxCallers
    /\ rl = [t \in 1..MaxCallers |-> IdleCaller]
    /\ InitCacheIdle
    /\ InitProbeIdle

NextRL ==
    \/ \E t \in Callers : RLCall(t)
    \/ \E t \in Callers : RLWaitTest(t)
    \/ \E t \in Callers : RLWaitMin(t)
    \/ \E t \in Callers : RLWake(t)
    \/ \E t \in Callers : RLFilter(t)
    \/ \E t \in Callers : RLStore(t)
    \/ \E t \in Callers : RLLen(t)
    \/ \E t \in Callers : RLProbe(t)
    \/ \E t \in Callers : RLAdd(t)
    \/ Tick

SpecRL == InitRL /\ [][NextRL]_vars

\* One caller at a time.
InitRLSeq == InitRL /\ callers = 1
SpecRLSeq == InitRLSeq /\ [][NextRL]_vars


\* ===================================================================
\* LimitedSizeCache used by one client (SpecCache)
\* ===================================================================
\* key in cache: __contains__, line 406
CContains(k) ==
    /\ nops < MaxOps
    /\ nops' = nops + 1
    /\ last' = [op |-> "contains", key |-> k, ok |-> TRUE, value |-> 0,
                hit |-> Has(cache, k), gone |-> {}]
    /\ UNCHANGED <<engineVars, extVars, limiterVars, probeVars, cache, max_size, stamp, ref>>

\* cache[key]: __getitem__, lines 408-411; pop raises KeyError for an
\* absent key and the cache is left as it was
CGet(k) ==
    /\ nops < MaxOps
    /\ nops' = nops + 1
    /\ IF Has(cache, k)
          THEN /\ cache' = CacheGet(cache, k)
               /\ stamp' = [stamp EXCEPT ![k] = nops + 1]
               /\ last' = [op |-> "get", key |-> k, ok |-> TRUE,
                           value |-> ValueOf(cache, k), hit |-> TRUE,
                           gone |-> KeysOf(cache) \ KeysOf(cache')]
          ELSE /\ last' = [op |-> "get", key |-> k, ok |-> FALSE, value |-> 0,
                           hit |-> FALSE, gone |-> {}]
               /\ UNCHANGED <<cache, stamp>>
    /\ UNCHANGED <<engineVars, extVars, limiterVars, probeVars, max_size, ref>>

\* cache[key] = value: __setitem__, lines 413-418
CPut(k, v) ==
    /\ nops < MaxOps
    /\ nops' = nops + 1
    /\ cache' = CachePut(cache, k, v)
    /\ stamp' = [stamp EXCEPT ![k] = nops + 1]
    /\ ref' = RefPut(ref, stamp, k, v)
    /\ last' = [op |-> "put", key |-> k, ok |-> TRUE, value |-> v,
                hit |-> Has(cache, k), gone |-> KeysOf(cache) \ KeysOf(cache')]
    /\ UNCHANGED <<engineVars, extVars, limiterVars, probeVars, max_size>>

\* LimitedSizeCache(max_size), lines 402-404: empty, max_size >= 1
InitCache ==
    /\ wordlist = <<>>
    /\ raw = <<>>
    /\ InitExtIdle
    /\ batch_size = 1
    /\ threads = 1
    /\ asdict_ok = TRUE
    /\ pc = "cache_client"
    /\ running = FALSE
    /\ InitEngine
    /\ InitLimiterIdle
    /\ InitProbeIdle
    /\ cache = <<>>
    /\ max_size \in 1..MaxCacheSize
    /\ stamp = [k \in Keys |-> 0]
    /\ ref = [k \in Keys |-> 0]
    /\ nops = 0
    /\ last = NoOp

NextCache ==
    \/ \E k \in Keys : CContains(k)
    \/ \E k \in Keys : CGet(k)
    \/ \E k \in Keys, v \in CacheValues : CPut(k, v)

SpecCache == InitCache /\ [][NextCache]_vars

\* ===================================================================
\* Two workers running _validate_target on the shared cache (SpecProbe)
\* ===================================================================
\* The steps of LimitedSizeCache's methods are those of lines 405-418; no
\* lock is held around them, so a thread switch can fall between any two.
\* The steps of _validate_target itself follow spec 4.4 (the per-request
\* delay is left out: no claim checked here depends on the clock).
PGoto(w, p) == [pw EXCEPT ![w].pc = p]

\* A worker takes a work item: _validate_target(word)
PCall(w, t) ==
    /\ pw[w].pc = "idle"
    /\ handed < MaxProbes
    /\ handed' = handed + 1
    /\ pw' = [pw EXCEPT ![w] = [IdleProber EXCEPT !.pc = "contains", !.target = t]]
    /\ UNCHANGED <<engineVars, extVars, limiterVars, cacheVars, retries, netprobes>>

\* spec 4.4 step 1: target in self._cache (line 406)
PContains(w) ==
    /\ pw[w].pc = "contains"
    /\ pw' = PGoto(w, IF Has(cache, pw[w].target) THEN "get_pop" ELSE "request")
    /\ UNCHANGED <<engineVars, extVars, limiterVars, cacheVars, retries, handed, netprobes>>

\* __getitem__, line 409: value = self._cache.pop(key); KeyError if the
\* key has gone since the membership test
PGetPop(w) ==
    /\ pw[w].pc = "get_pop"
    /\ IF Has(cache, pw[w].target)
          THEN /\ cache' = ODPop(cache, pw[w].target)
               /\ pw' = [pw EXCEPT ![w].pc = "get_set",
                                   ![w].status = ValueOf(cache, pw[w].target)]
          ELSE /\ pw' = PGoto(w, "raised")
               /\ cache' = cache
    /\ UNCHANGED <<engineVars, extVars, limiterVars, max_size, stamp, ref, nops, last,
                   retries, handed, netprobes>>

\* __getitem__, lines 410-411: self._cache[key] = value; return value
PGetSet(w) ==
    /\ pw[w].pc = "get_set"
    /\ cache' = ODSet(cache, pw[w].target, pw[w].status)
    /\ pw' = [pw EXCEPT ![w].pc = "done", ![w].hit = TRUE,
                        ![w].found = Found(pw[w].status)]
    /\ UNCHANGED <<engineVars, extVars, limiterVars, max_size, stamp, ref, nops, last,
                   retries, handed, netprobes>>

\* spec 4.4 steps 3-6: one HEAD request and what follows from its outcome
PRequest(w) ==
    /\ pw[w].pc = "request"
    /\ netprobes' = IF pw[w].sent = 0
                       THEN [netprobes EXCEPT ![pw[w].target] = @ + 1]
                       ELSE netprobes
    /\ \/ \E s \in CacheValues :
              pw' = [pw EXCEPT ![w].pc = "put_in", ![w].sent = @ + 1,
                               ![w].err = "none", ![w].status = s,
                               ![w].found = Found(s)]
       \/ \E kind \in {"transient", "terminal"} :
              pw' = [pw EXCEPT ![w].sent = @ + 1,
                               ![w].err = kind,
                               ![w].pc = IF Retried(kind) /\ RetryAllowed(pw[w].sent)
                                            THEN "request"
                                            ELSE AfterFailure(kind)]
    /\ UNCHANGED <<engineVars, extVars, limiterVars, cacheVars, retries, handed>>

\* __setitem__, line 414: if key in self._cache
PPutIn(w) ==
    /\ pw[w].pc = "put_in"
    /\ pw' = PGoto(w, IF Has(cache, pw[w].target) THEN "put_pop" ELSE "put_len")
    /\ UNCHANGED <<engineVars, extVars, limiterVars, cacheVars, retries, handed, netprobes>>

\* __setitem__, line 416: elif len(self._cache) >= self.max_size
PPutLen(w) ==
    /\ pw[w].pc = "put_len"
    /\ pw' = PGoto(w, IF NoRoom(cache) THEN "put_evict" ELSE "put_insert")
    /\ UNCHANGED <<engineVars, extVars, limiterVars, cacheVars, retries, handed, netprobes>>

\* __setitem__, line 415: self._cache.pop(key); KeyError if the key has gone
PPutPop(w) ==
    /\ pw[w].pc = "put_pop"
    /\ IF Has(cache, pw[w].target)
          THEN cache' = ODPop(cache, pw[w].target) /\ pw' = PGoto(w, "put_insert")
          ELSE cache' = cache /\ pw' = PGoto(w, "raised")
    /\ UNCHANGED <<engineVars, extVars, limiterVars, max_size, stamp, ref, nops, last,
                   retries, handed, netprobes>>

\* __setitem__, line 417: self._cache.popitem(last=False); KeyError if the
\* dict has been emptied
PPutEvict(w) ==
    /\ pw[w].pc = "put_evict"
    /\ IF cache # <<>>
          THEN cache' = ODPopFirst(cache) /\ pw' = PGoto(w, "put_insert")
          ELSE cache' = cache /\ pw' = PGoto(w, "raised")
    /\ UNCHANGED <<engineVars, extVars, limiterVars, max_size, stamp, ref, nops, last,
                   retries, handed, netprobes>>

\* __setitem__, line 418: self._cache[key] = value; the probe returns
PPutInsert(w) ==
    /\ pw[w].pc = "put_insert"
    /\ cache' = ODSet(cache, pw[w].target, pw[w].status)
    /\ pw' = PGoto(w, "done")
    /\ UNCHANGED <<engineVars, extVars, limiterVars, max_size, stamp, ref, nops, last,
                   retries, handed, netprobes>>

\* The work item is over (a Result or an exception for its future) and the
\* worker is free again.
PReturn(w) ==
    /\ pw[w].pc \in {"done", "raised"}
    /\ pw' = [pw EXCEPT ![w] = IdleProber]
    /\ UNCHANGED <<engineVars, extVars, limiterVars, cacheVars, retries, handed, netprobes>>

InitProbe ==
    /\ wordlist = <<>>
    /\ raw = <<>>
    /\ InitExtIdle
    /\ batch_size = 1
    /\ threads = 1
    /\ asdict_ok = TRUE
    /\ pc = "probing"
    /\ running = TRUE
    /\ InitEngine
    /\ InitLimiterIdle
    /\ cache = <<>>
    /\ max_size \in 1..MaxCacheSize
    /\ stamp = [k \in Keys |-> 0]
    /\ ref = [k \in Keys |-> 0]
    /\ nops = 0
    /\ last = NoOp
    /\ retries \in 0..MaxRetries
    /\ pw = [w \in Probers |-> IdleProber]
    /\ handed = 0
    /\ netprobes = [t \in Targets |-> 0]

NextProbe ==
    \/ \E w \in Probers, t \in Targets : PCall(w, t)
    \/ \E w \in Probers : PContains(w)
    \/ \E w \in Probers : PGetPop(w)
    \/ \E w \in Probers : PGetSet(w)
    \/ \E w \in Probers : PRequest(w)
    \/ \E w \in Probers : PPutIn(w)
    \/ \E w \in Probers : PPutLen(w)
    \/ \E w \in Probers : PPutPop(w)
    \/ \E w \in Probers : PPutEvict(w)
    \/ \E w \in Probers : PPutInsert(w)
    \/ \E w \in Probers : PReturn(w)

SpecProbe == InitProbe /\ [][NextProbe]_vars

\* ===================================================================
\* PluginManager.run_hook (SpecHook)
\* ===================================================================
\* What a plugin's hook does with the value it is given: return it plus
\* one, return its double, raise; "absent": the plugin has no such hook.
PluginKinds == {"inc", "dbl", "raise", "absent"}
\* hasattr(plugin, hook_name), line 263
HasHook(p) == p # "absent"
\* getattr(plugin, hook_name)(data), line 264
HookRaises(p) == p = "raise"
Apply(p, d) == IF p = "inc" THEN d + 1 ELSE 2 * d
\* except Exception (line 265): what a hook raises is logged
HookCaughtNothing(p) == FALSE
HookCaught(p) == TRUE

\* run_hook(hook_name, data) is called
HookCall(d) ==
    /\ hk.pc = "idle"
    /\ hk' = [pc |-> "loop", idx |-> 0, data |-> d, arg |-> d, calls |-> <<>>]
    /\ UNCHANGED <<engineVars, limiterVars, cacheVars, probeVars, plugins,
                   storeVars, configVars, pluginVars>>

\* one iteration of for plugin in self.plugins, lines 261-266
HookStep ==
    /\ hk.pc = "loop"
    /\ hk.idx < Len(plugins)
    /\ LET p == plugins[hk.idx + 1] IN
       IF ~HasHook(p)
          THEN hk' = [hk EXCEPT !.idx = @ + 1]
          ELSE LET call == [plugin |-> hk.idx + 1, arg |-> hk.data,
                            raised |-> HookRaises(p)]
               IN IF HookRaises(p)
                     THEN IF HookCaught(p)
                             THEN hk' = [hk EXCEPT !.idx = @ + 1,
                                                   !.calls = Append(@, call)]
                             ELSE hk' = [hk EXCEPT !.pc = "raised",
                                                   !.calls = Append(@, call)]
                     ELSE hk' = [hk EXCEPT !.idx = @ + 1,
                                           !.data = Apply(p, hk.data),
                                           !.calls = Append(@, call)]
    /\ UNCHANGED <<engineVars, limiterVars, cacheVars, probeVars, plugins,
                   storeVars, configVars, pluginVars>>

\* return data, line 267
HookReturn ==
    /\ hk.pc = "loop"
    /\ hk.idx = Len(plugins)
    /\ hk' = [hk EXCEPT !.pc = "returned"]
    /\ UNCHANGED <<engineVars, limiterVars, cacheVars, probeVars, plugins,
                   storeVars, configVars, pluginVars>>

InitHook ==
    /\ wordlist = <<>>
    /\ raw = <<>>
    /\ batch_size = 1
    /\ threads = 1
    /\ asdict_ok = TRUE
    /\ pc = "hooks"
    /\ running = FALSE
    /\ InitEngine
    /\ InitLimiterIdle
    /\ InitCacheIdle
    /\ InitProbeIdle
    /\ InitStoreIdle
    /\ InitConfigIdle
    /\ InitPluginIdle
    /\ plugins \in UNION {[1..n -> PluginKinds] : n \in 0..MaxPlugins}
    /\ hk = [pc |-> "idle", idx |-> 0, data |-> 0, arg |-> 0, calls |-> <<>>]

NextHook ==
    \/ \E d \in 0..MaxData : HookCall(d)
    \/ HookStep
    \/ HookReturn

SpecHook == InitHook /\ [][NextHook]_vars

\* ===================================================================
\* HistoryManager on the scans table (SpecStore)
\* ===================================================================
\* A start time: seconds (two digits on the clock) and microseconds.
StartTimes == [s : {9, 10}, us : {0, 1}]
\* datetime.isoformat(), line 135, as the text SQLite stores (character
\* codes): the seconds on two digits, then "." and the microseconds unless
\* they are 0.  The fields before the seconds have a fixed width as well.
IsoFormat(dt) ==
    <<48 + (dt.s \div 10), 48 + (dt.s % 10)>> \o
        (IF dt.us = 0 THEN <<>> ELSE <<46, 48 + dt.us>>)
\* datetime.fromisoformat(row[4]), line 151
FromIso(t) ==
    [s |-> (t[1] - 48) * 10 + (t[2] - 48),
     us |-> IF Len(t) = 2 THEN 0 ELSE t[4] - 48]
\* SQLite's comparison of two TEXT values: bytewise, a proper prefix first
TextLess(a, b) ==
    \E k \in 1..(Len(b)) :
        /\ \A i \in 1..(k - 1) : i <= Len(a) /\ a[i] = b[i]
        /\ k > Len(a) \/ a[k] < b[k]
\* ORDER BY start_time DESC, line 144: row a may come before row b
MayPrecedeAsc(a, b) == ~TextLess(b.start_time, a.start_time)
MayPrecede(a, b) == ~TextLess(a.start_time, b.start_time)
\* INSERT INTO scans, lines 129-138: the new row is added to the table
InsertOverLast(tbl, row) == IF tbl = <<>> THEN <<row>> ELSE [tbl EXCEPT ![Len(tbl)] = row]
Insert(tbl, row) == Append(tbl, row)
\* The orders in which ORDER BY may deliver the rows numbered in S of tbl
\* (sequences of row numbers): any row no other row must precede comes next.
RECURSIVE Orders(_, _)
Orders(tbl, S) ==
    IF S = {} THEN {<<>>}
    ELSE UNION {{<<k>> \o r : r \in Orders(tbl, S \ {k})} :
                   k \in {k \in S : \A j \in S : MayPrecede(tbl[k], tbl[j])}}

\* add_scan(scan), lines 126-138; id INTEGER PRIMARY KEY AUTOINCREMENT
\* (line 113).  at is the datetime the caller passed (an observer's field).
AddScan(dt) ==
    /\ Len(scans) < MaxScans
    /\ seq_id' = seq_id + 1
    /\ scans' = Insert(scans, [id |-> seq_id + 1, start_time |-> IsoFormat(dt), at |-> dt])
    /\ UNCHANGED <<engineVars, limiterVars, cacheVars, probeVars, hookVars,
                   configVars, pluginVars, listed>>

\* get_scans(limit), lines 140-157: SELECT * FROM scans ORDER BY start_time
\* DESC LIMIT ?; rows with equal start_time come in an order SQL leaves open
GetScans(limit) ==
    /\ \E f \in Orders(scans, 1..Len(scans)) :
          /\ listed' = [limit |-> limit, n |-> Len(scans),
                        rows |-> [i \in 1..Min(limit, Len(scans)) |->
                                    [id |-> scans[f[i]].id,
                                     start_time |-> FromIso(scans[f[i]].start_time)]]]
    /\ UNCHANGED <<engineVars, limiterVars, cacheVars, probeVars, hookVars,
                   configVars, pluginVars, scans, seq_id>>

\* _init_db, lines 107-124: CREATE TABLE IF NOT EXISTS; the table is new
InitStore ==
    /\ wordlist = <<>>
    /\ raw = <<>>
    /\ batch_size = 1
    /\ threads = 1
    /\ asdict_ok = TRUE
    /\ pc = "history"
    /\ running = FALSE
    /\ InitEngine
    /\ InitLimiterIdle
    /\ InitCacheIdle
    /\ InitProbeIdle
    /\ InitHookIdle
    /\ InitConfigIdle
    /\ InitPluginIdle
    /\ scans = <<>>
    /\ seq_id = 0
    /\ listed = [limit |-> 0, n |-> 0, rows |-> <<>>]

NextStore ==
    \/ \E dt \in StartTimes : AddScan(dt)
    \/ \E limit \in 0..(MaxScans + 1) : GetScans(limit)

SpecStore == InitStore /\ [][NextStore]_vars

\* ===================================================================
\* execute_scan up to the start of the scan: Config (SpecConfig)
\* ===================================================================
\* The thread counts handed to execute_scan: integers (field v), and texts
\* (field t, the characters) as the menu reads them; validate_threads takes
\* Union[str, int], line 340.
IntCounts == {[kind |-> "int", v |-> n, t |-> <<>>] : n \in {-1, 0, 1, 2, 100, 101}}
TextCounts ==
    {[kind |-> "str", v |-> 0, t |-> t] :
        t \in {<<"5">>, <<"0">>, <<"1", "0", "1">>, <<"a", "b", "c">>, <<>>}}
ThreadInputs == IntCounts \cup TextCounts
ModeInputs == {"directory", "subdomain", "Directory", "SUBDOMAIN", "dns", ""}
VALID_MODES == {"directory", "subdomain"}
Digits == {"0", "1", "5"}
DigitValue(c) == CASE c = "0" -> 0 [] c = "1" -> 1 [] c = "5" -> 5
\* int(text): the number a text of decimal digits writes
RECURSIVE Numeral(_)
Numeral(t) ==
    IF t = <<>> THEN 0
    ELSE 10 * Numeral(SubSeq(t, 1, Len(t) - 1)) + DigitValue(t[Len(t)])
\* int(threads), line 343, raises ValueError on a text that is no numeral
IntRaises(x) ==
    x.kind = "str" /\ (x.t = <<>> \/ \E i \in 1..Len(x.t) : x.t[i] \notin Digits)
IntOf(x) == IF x.kind = "int" THEN x.v ELSE Numeral(x.t)
\* line 344
InRangeFromZero(n) == 0 <= n /\ n <= 100
InRange(n) == 1 <= n /\ n <= 100
\* validate_threads, lines 340-346
validate_threads(x) == IF IntRaises(x) THEN FALSE ELSE InRange(IntOf(x))
\* str.lower()
Lower(m) ==
    CASE m = "Directory" -> "directory"
      [] m = "SUBDOMAIN" -> "subdomain"
      [] OTHER -> m
\* validate_mode, lines 336-338
validate_mode(m) == Lower(m) \in VALID_MODES

\* execute_scan, lines 832-834: validate_file(wordlist)
ValidateFile ==
    /\ cfg_out.pc = "file"
    /\ cfg_out' = IF cfg_in.file_ok
                    THEN [cfg_out EXCEPT !.pc = "threads"]
                    ELSE [cfg_out EXCEPT !.pc = "raised", !.error = "ValidationError"]
    /\ UNCHANGED <<engineVars, limiterVars, cacheVars, probeVars, hookVars,
                   storeVars, pluginVars, cfg_in>>

\* Config.__init__, line 359, and _validate_threads, lines 371-374: the
\* value stored is the one that was passed
ConfigThreads ==
    /\ cfg_out.pc = "threads"
    /\ cfg_out' = IF validate_threads(cfg_in.threads)
                    THEN [cfg_out EXCEPT !.pc = "mode", !.built = TRUE,
                                         !.threads = cfg_in.threads]
                    ELSE [cfg_out EXCEPT !.pc = "raised", !.built = TRUE,
                                         !.error = "ConfigError"]
    /\ UNCHANGED <<engineVars, limiterVars, cacheVars, probeVars, hookVars,
                   storeVars, pluginVars, cfg_in>>

\* Config.__init__, line 366, and _validate_mode, lines 376-379
ConfigMode ==
    /\ cfg_out.pc = "mode"
    /\ cfg_out' = IF validate_mode(cfg_in.mode)
                    THEN [cfg_out EXCEPT !.pc = "scan", !.mode = Lower(cfg_in.mode)]
                    ELSE [cfg_out EXCEPT !.pc = "raised", !.error = "ConfigError"]
    /\ UNCHANGED <<engineVars, limiterVars, cacheVars, probeVars, hookVars,
                   storeVars, pluginVars, cfg_in>>

\* execute_scan, lines 850-852: Bruteforcer.run() starts the workers with
\* ThreadPoolExecutor(max_workers=self.config.threads), line 761, unless
\* asdict (line 754) or a max_workers that is a text raises TypeError, which
\* execute_scan logs (lines 866-869)
StartWorkers ==
    /\ cfg_out.pc = "scan"
    /\ cfg_out' = IF asdict_ok /\ cfg_out.threads.kind = "int"
                    THEN [cfg_out EXCEPT !.pc = "running", !.workers = 1]
                    ELSE [cfg_out EXCEPT !.pc = "done", !.error = "TypeError"]
    /\ UNCHANGED <<engineVars, limiterVars, cacheVars, probeVars, hookVars,
                   storeVars, pluginVars, cfg_in>>

\* a worker issues a probe request (lines 767, 712-739)
WorkerRequest ==
    /\ cfg_out.pc = "running"
    /\ cfg_out.requests = 0
    /\ cfg_out' = [cfg_out EXCEPT !.requests = 1]
    /\ UNCHANGED <<engineVars, limiterVars, cacheVars, probeVars, hookVars,
                   storeVars, pluginVars, cfg_in>>

\* the scan ends (line 784)
ScanEnds ==
    /\ cfg_out.pc = "running"
    /\ cfg_out' = [cfg_out EXCEPT !.pc = "done"]
    /\ UNCHANGED <<engineVars, limiterVars, cacheVars, probeVars, hookVars,
                   storeVars, pluginVars, cfg_in>>

\* execute_scan is called (line 829)
InitConfig ==
    /\ wordlist = <<>>
    /\ raw = <<>>
    /\ batch_size = 1
    /\ threads = 1
    /\ asdict_ok \in BOOLEAN
    /\ pc = "config"
    /\ running = FALSE
    /\ InitEngine
    /\ InitLimiterIdle
    /\ InitCacheIdle
    /\ InitProbeIdle
    /\ InitHookIdle
    /\ InitStoreIdle
    /\ InitPluginIdle
    /\ cfg_in \in [threads : ThreadInputs, mode : ModeInputs, file_ok : BOOLEAN]
    /\ cfg_out = [pc |-> "file", built |-> FALSE, error |-> "none",
                  threads |-> [kind |-> "none", v |-> 0, t |-> <<>>], mode |-> "",
                  workers |-> 0, requests |-> 0]

NextConfig ==
    \/ ValidateFile
    \/ ConfigThreads
    \/ ConfigMode
    \/ StartWorkers
    \/ WorkerRequest
    \/ ScanEnds

SpecConfig == InitConfig /\ [][NextConfig]_vars

\* ===================================================================
\* The report plugin's hooks (SpecReport), src/plugins/report_plugin.py
\* ===================================================================
MaxCalls == 3

\* DEFAULT_CONFIG['validation'], lines 122-127 (the length limits are not
\* reached by the records below)
allowed_schemes == {"http", "https"}
allowed_status_codes == 100..599
\* Result records handed to on_result.  complete: the record has the keys
\* target, status_code and content_type; a target is its scheme and the
\* characters after "://"; a content type is its characters.
ResultTargets == [scheme : {"http", "ftp"}, rest : {<<"h">>, <<"h", " ", "h">>}]
ContentTypes == {<<"t", "/", "h">>, <<"t", "!">>, <<>>}
ResultRecords ==
    [complete : BOOLEAN, target : ResultTargets, status_code : StatusCodes,
     content_type : ContentTypes, found : BOOLEAN]
\* [\w\-\./:%] and [\w\-\./+], lines 267 and 282, on the characters used
UrlChars == {"h", "t", "p", "-", ".", "/", ":", "%"}
TypeChars == {"h", "t", "-", ".", "/", "+"}
\* validate_target, lines 256-270
validate_target(t) ==
    /\ t.scheme \in allowed_schemes
    /\ \A i \in 1..Len(t.rest) : t.rest[i] \in UrlChars
\* validate_status_code, lines 272-274
validate_status_code(c) == c \in allowed_status_codes
\* validate_content_type, lines 276-282
validate_content_type(c) == c # <<>> /\ \A i \in 1..Len(c) : c[i] \in TypeChars
\* validate_result, lines 284-318
validate_result(r) ==
    /\ r.complete
    /\ validate_target(r.target)
    /\ validate_status_code(r.status_code)
    /\ validate_content_type(r.content_type)

\* on_result, lines 733-739: what a counted record adds to found_count and
\* to errors
FoundIncAlways(r) == 1
FoundInc(r) == IF r.found THEN 1 ELSE 0
ErrorInc(r) == IF ~r.found /\ r.status_code = 0 THEN 1 ELSE 0
\* post_scan, lines 786-788 (finally): current_scan and metrics
KeptWhenFailed(p, ok) == IF ok THEN NoScan ELSE p
AfterPostScan(p, ok) == NoScan

\* pre_scan(config), lines 704-721
RPreScan(c) ==
    /\ rcall.n < MaxCalls
    /\ rp' = [scan |-> TRUE, metrics |-> [NoMetrics EXCEPT !.on = TRUE], kept |-> 0]
    /\ rcall' = [n |-> rcall.n + 1, hook |-> "pre_scan", arg |-> c, ret |-> c]
    /\ UNCHANGED <<engineVars, limiterVars, cacheVars, probeVars, hookVars,
                   storeVars, configVars, bufferVars>>

\* on_result(result), lines 723-749
ROnResult(r) ==
    /\ rcall.n < MaxCalls
    /\ rp' = IF ~rp.metrics.on \/ ~validate_result(r)
                THEN rp
                ELSE [rp EXCEPT !.metrics.total_requests = @ + 1,
                                !.metrics.found_count = @ + FoundInc(r),
                                !.metrics.errors = @ + ErrorInc(r),
                                !.kept = @ + FoundInc(r)]
    /\ rcall' = [n |-> rcall.n + 1, hook |-> "on_result", arg |-> r, ret |-> r]
    /\ UNCHANGED <<engineVars, limiterVars, cacheVars, probeVars, hookVars,
                   storeVars, configVars, bufferVars>>

\* post_scan(results), lines 751-788; ok: no step of the report generation
\* raised into the except clause of line 783
RPostScan(rs) ==
    /\ rcall.n < MaxCalls
    /\ \E ok \in BOOLEAN :
          rp' = IF ~rp.scan THEN rp ELSE AfterPostScan(rp, ok)
    /\ rcall' = [n |-> rcall.n + 1, hook |-> "post_scan", arg |-> rs, ret |-> rs]
    /\ UNCHANGED <<engineVars, limiterVars, cacheVars, probeVars, hookVars,
                   storeVars, configVars, bufferVars>>

\* Plugin.__init__, lines 561-578
InitReport ==
    /\ wordlist = <<>>
    /\ raw = <<>>
    /\ batch_size = 1
    /\ threads = 1
    /\ asdict_ok = TRUE
    /\ pc = "hooks"
    /\ running = FALSE
    /\ InitEngine
    /\ InitLimiterIdle
    /\ InitCacheIdle
    /\ InitProbeIdle
    /\ InitHookIdle
    /\ InitStoreIdle
    /\ InitConfigIdle
    /\ InitBufferIdle
    /\ rp = NoScan
    /\ rcall = [n |-> 0, hook |-> "none", arg |-> 0, ret |-> 0]

NextReport ==
    \/ \E c \in 1..2 : RPreScan(c)
    \/ \E r \in ResultRecords : ROnResult(r)
    \/ \E rs \in {<<>>, <<1>>} : RPostScan(rs)

SpecReport == InitReport /\ [][NextReport]_vars

\* ===================================================================
\* WriteBuffer._write_file called by several threads (SpecWrite)
\* ===================================================================
MaxWriters == 2

\* A path is its stem and its suffix; the reports of one scan share the
\* stem (report_<timestamp>, line 763) and differ in the suffix.
Dests ==
    {[stem |-> "r", suffix |-> "json"], [stem |-> "r", suffix |-> "html"],
     [stem |-> "s", suffix |-> "json"]}
\* Path.with_suffix, line 235
with_suffix(p, sfx) == [p EXCEPT !.suffix = sfx]
TempOf(p) == with_suffix(p, "tmp")
AllPaths == Dests \cup {TempOf(p) : p \in Dests}
\* What a path holds: nothing, or the file a call opened (owner: the call,
\* whose content is its own) and whether the content has been written.
Absent == [owner |-> 0, full |-> FALSE]
NoFiles == [p \in AllPaths |-> Absent]
\* Where a call of _write_file fails by itself, if it does.
Faults == {"none", "write", "rename"}
Writers == 1..MaxWriters
WSet(k, f, v) == [wcalls EXCEPT ![k] = [@ EXCEPT ![f] = v]]
WAt(k, p) == wcalls[k].pc = p

\* line 237: with self.lock (acquire)
WAcquire(k) ==
    /\ WAt(k, "acquire")
    /\ lock = 0
    /\ lock' = k
    /\ wcalls' = WSet(k, "pc", "open")
    /\ UNCHANGED <<engineVars, limiterVars, cacheVars, probeVars, hookVars,
                   storeVars, configVars, reportVars, wq, files>>

\* line 238: open(temp_path, 'w') creates the file or empties it
WOpen(k) ==
    /\ WAt(k, "open")
    /\ files' = [files EXCEPT ![TempOf(wcalls[k].path)] = [owner |-> k, full |-> FALSE]]
    /\ wcalls' = WSet(k, "pc", "write")
    /\ UNCHANGED <<engineVars, limiterVars, cacheVars, probeVars, hookVars,
                   storeVars, configVars, reportVars, wq, lock>>

\* line 239: f.write(content), and the file is closed.  The content goes to
\* the file the call opened, also when that file has been unlinked since.
\* An exception leaves both with blocks: the lock is released.
WWrite(k) ==
    /\ WAt(k, "write")
    /\ LET t == TempOf(wcalls[k].path) IN
       IF wcalls[k].fault = "write"
          THEN /\ wcalls' = [wcalls EXCEPT ![k].pc = "exists", ![k].err = "OSError"]
               /\ lock' = 0
               /\ UNCHANGED files
          ELSE /\ files' = IF files[t].owner = k
                              THEN [files EXCEPT ![t].full = TRUE]
                              ELSE files
               /\ wcalls' = WSet(k, "pc", "rename")
               /\ UNCHANGED lock
    /\ UNCHANGED <<engineVars, limiterVars, cacheVars, probeVars, hookVars,
                   storeVars, configVars, reportVars, wq>>

\* line 240: temp_path.rename(file_path); FileNotFoundError when the
\* temporary path holds nothing
WRename(k) ==
    /\ WAt(k, "rename")
    /\ LET t == TempOf(wcalls[k].path) IN
       IF wcalls[k].fault = "rename" \/ files[t] = Absent
          THEN /\ wcalls' = [wcalls EXCEPT ![k].pc = "exists",
                                           ![k].err = IF files[t] = Absent
                                                         THEN "FileNotFoundError"
                                                         ELSE "OSError"]
               /\ lock' = 0
               /\ UNCHANGED files
          ELSE /\ files' = [files EXCEPT ![wcalls[k].path] = files[t], ![t] = Absent]
               /\ wcalls' = WSet(k, "pc", "release")
               /\ UNCHANGED lock
    /\ UNCHANGED <<engineVars, limiterVars, cacheVars, probeVars, hookVars,
                   storeVars, configVars, reportVars, wq>>

\* leaving with self.lock, and the call returns
WRelease(k) ==
    /\ WAt(k, "release")
    /\ lock' = 0
    /\ wcalls' = WSet(k, "pc", "returned")
    /\ UNCHANGED <<engineVars, limiterVars, cacheVars, probeVars, hookVars,
                   storeVars, configVars, reportVars, wq, files>>

\* line 242: if temp_path.exists(); line 244: raise
WExists(k) ==
    /\ WAt(k, "exists")
    /\ wcalls' = WSet(k, "pc", IF files[TempOf(wcalls[k].path)] = Absent
                                  THEN "raised" ELSE "unlink")
    /\ UNCHANGED <<engineVars, limiterVars, cacheVars, probeVars, hookVars,
                   storeVars, configVars, reportVars, wq, files, lock>>

\* line 243: temp_path.unlink(), which raises FileNotFoundError in place
\* of the exception being handled when the path holds nothing any more;
\* line 244: raise
WUnlink(k) ==
    /\ WAt(k, "unlink")
    /\ LET t == TempOf(wcalls[k].path) IN
       IF files[t] = Absent
          THEN /\ wcalls' = [wcalls EXCEPT ![k].pc = "raised",
                                           ![k].err = "FileNotFoundError"]
               /\ UNCHANGED files
          ELSE /\ files' = [files EXCEPT ![t] = Absent]
               /\ wcalls' = WSet(k, "pc", "raised")
    /\ UNCHANGED <<engineVars, limiterVars, cacheVars, probeVars, hookVars,
                   storeVars, configVars, reportVars, wq, lock>>

\* The threads of the executor of line 219, each with a call to make.
InitWrite ==
    /\ wordlist = <<>>
    /\ raw = <<>>
    /\ batch_size = 1
    /\ threads = 1
    /\ asdict_ok = TRUE
    /\ pc = "writes"
    /\ running = FALSE
    /\ InitEngine
    /\ InitLimiterIdle
    /\ InitCacheIdle
    /\ InitProbeIdle
    /\ InitHookIdle
    /\ InitStoreIdle
    /\ InitConfigIdle
    /\ InitReportIdle
    /\ wq = [pc |-> "idle"]
    /\ files = NoFiles
    /\ lock = 0
    /\ wcalls \in [Writers -> [pc : {"acquire"}, path : Dests, fault : Faults,
                               err : {"none"}]]

NextWrite ==
    \/ \E k \in Writers : WAcquire(k)
    \/ \E k \in Writers : WOpen(k)
    \/ \E k \in Writers : WWrite(k)
    \/ \E k \in Writers : WRename(k)
    \/ \E k \in Writers : WRelease(k)
    \/ \E k \in Writers : WExists(k)
    \/ \E k \in Writers : WUnlink(k)

SpecWrite == InitWrite /\ [][NextWrite]_vars

\* ===================================================================
\* WriteBuffer: write, the worker thread and stop (SpecBuffer)
\* ===================================================================
MaxWrites == 3
MaxCapacity == 2
\* line 210: while len(batch) < 10
BatchLimit == 10

BSet(f, v) == [wq EXCEPT ![f] = v]
BAt(p) == wq.pc = p

\* lines 200-202: write puts (file_path, content) on the queue, and waits
\* while the queue is full.  sent keeps what was handed over and whether
\* the buffer was running then; the content of the c-th write is c.
BWrite(p) ==
    /\ Len(wq.sent) < MaxWrites
    /\ Len(wq.queue) < wq.maxsize
    /\ wq' = [wq EXCEPT !.queue = Append(@, [path |-> p, content |-> Len(wq.sent) + 1]),
                        !.sent = Append(@, [path |-> p, live |-> wq.running])]
    /\ UNCHANGED <<engineVars, limiterVars, cacheVars, probeVars, hookVars,
                   storeVars, configVars, reportVars, files, wcalls, lock>>

\* lines 246-249: stop clears running (and then joins the worker)
BStop ==
    /\ wq.running
    /\ wq' = BSet("running", FALSE)
    /\ UNCHANGED <<engineVars, limiterVars, cacheVars, probeVars, hookVars,
                   storeVars, configVars, reportVars, files, wcalls, lock>>

\* line 207: while self.running
WLoop ==
    /\ BAt("loop")
    /\ wq' = BSet("pc", IF wq.running THEN "collect" ELSE "exited")
    /\ UNCHANGED <<engineVars, limiterVars, cacheVars, probeVars, hookVars,
                   storeVars, configVars, reportVars, files, wcalls, lock>>

\* lines 210-213: an item is taken from the queue into the batch
WTake ==
    /\ BAt("collect")
    /\ Len(wq.batch) < BatchLimit
    /\ wq.queue # <<>>
    /\ wq' = [wq EXCEPT !.batch = Append(@, Head(wq.queue)),
                        !.queue = Tail(@)]
    /\ UNCHANGED <<engineVars, limiterVars, cacheVars, probeVars, hookVars,
                   storeVars, configVars, reportVars, files, wcalls, lock>>

\* lines 210, 214-217: the batch is full, or get timed out on an empty
\* queue; an empty batch goes round the loop
WCollected ==
    /\ BAt("collect")
    /\ Len(wq.batch) >= BatchLimit \/ wq.queue = <<>>
    /\ wq' = [wq EXCEPT !.pc = IF wq.batch = <<>> THEN "loop" ELSE "process",
                        !.tried = {},
                        !.failed = FALSE]
    /\ UNCHANGED <<engineVars, limiterVars, cacheVars, probeVars, hookVars,
                   storeVars, configVars, reportVars, files, wcalls, lock>>

\* lines 221-227: _write_file of the i-th item of the batch returns: the
\* file holds the item's content (landed keeps the contents that have
\* been in their file at some time)
WWriteOk(i) ==
    /\ BAt("process")
    /\ i \in 1..Len(wq.batch)
    /\ i \notin wq.tried
    /\ files' = [files EXCEPT ![wq.batch[i].path] =
                     [owner |-> wq.batch[i].content, full |-> TRUE]]
    /\ wq' = [wq EXCEPT !.tried = @ \cup {i},
                        !.landed = @ \cup {wq.batch[i].content}]
    /\ UNCHANGED <<engineVars, limiterVars, cacheVars, probeVars, hookVars,
                   storeVars, configVars, reportVars, wcalls, lock>>

\* lines 221-227, 241-244: _write_file of the i-th item raises
WWriteFail(i) ==
    /\ BAt("process")
    /\ i \in 1..Len(wq.batch)
    /\ i \notin wq.tried
    /\ wq' = [wq EXCEPT !.tried = @ \cup {i}, !.failed = TRUE]
    /\ UNCHANGED <<engineVars, limiterVars, cacheVars, probeVars, hookVars,
                   storeVars, configVars, reportVars, files, wcalls, lock>>

\* lines 226-231: every future is done (the executor's with block waits
\* for all of them); without an exception batch.clear(), with one the
\* except clause logs it and the batch stays as it is
WProcessed ==
    /\ BAt("process")
    /\ wq.tried = 1..Len(wq.batch)
    /\ wq' = [wq EXCEPT !.pc = "loop",
                        !.batch = IF wq.failed THEN @ ELSE <<>>]
    /\ UNCHANGED <<engineVars, limiterVars, cacheVars, probeVars, hookVars,
                   storeVars, configVars, reportVars, files, wcalls, lock>>

\* lines 193-198: the queue is empty, running is set, the worker starts
InitBuffer ==
    /\ wordlist = <<>>
    /\ raw = <<>>
    /\ batch_size = 1
    /\ threads = 1
    /\ asdict_ok = TRUE
    /\ pc = "buffer"
    /\ running = FALSE
    /\ InitEngine
    /\ InitLimiterIdle
    /\ InitCacheIdle
    /\ InitProbeIdle
    /\ InitHookIdle
    /\ InitStoreIdle
    /\ InitConfigIdle
    /\ InitReportIdle
    /\ \E m \in 1..MaxCapacity :
          wq = [pc |-> "loop", running |-> TRUE, maxsize |-> m, queue |-> <<>>,
                batch |-> <<>>, tried |-> {}, failed |-> FALSE, sent |-> <<>>,
                landed |-> {}]
    /\ files = NoFiles
    /\ wcalls = <<>>
    /\ lock = 0

WorkerStep ==
    \/ WLoop
    \/ WTake
    \/ WCollected
    \/ \E i \in 1..MaxWrites : WWriteOk(i)
    \/ \E i \in 1..MaxWrites : WWriteFail(i)
    \/ WProcessed

NextBuffer ==
    \/ \E p \in Dests : BWrite(p)
    \/ BStop
    \/ WorkerStep

\* The worker thread keeps running, and a write that is tried again and
\* again succeeds in the end.
SpecBuffer ==
    /\ InitBuffer
    /\ [][NextBuffer]_vars
    /\ WF_vars(WorkerStep)
    /\ \A i \in 1..MaxWrites : SF_vars(WWriteOk(i))

\* ===================================================================
\* Claims checked under Spec
\* ===================================================================
AfterLoop == pc \in {"shutdown", "post_scan"}
SubmittedWords == [i \in TaskIds |-> tasks[i].word]

\* C1: no probe of a later batch has been submitted (so none has started)
\* while a probe submitted for an earlier batch has not completed, by
\* returning or by raising.
C1_BatchesSequential ==
    \A i \in TaskIds : \A j \in TaskIds :
        tasks[j].batch > tasks[i].batch => tasks[i].state = "done"

\* A probe of batch k+1 is being executed by a worker.
C1_Witness ==
    \E i \in TaskIds : \E j \in TaskIds :
        /\ tasks[j].batch = tasks[i].batch + 1
        /\ tasks[j].state = "running"

\* C2: the batches BatchProcessor yields are, concatenated, the wordlist
\* read so far, in order; each holds 1..batch_size entries and only the
\* last may hold fewer than batch_size; when the loop ends without a batch
\* having been refused by the cancellation check, the words submitted are
\* the wordlist, each entry once.
C2_BatchPartition ==
    /\ \A k \in 1..Len(yielded) : Len(yielded[k]) \in 1..batch_size
    /\ \A k \in 1..(Len(yielded) - 1) : Len(yielded[k]) = batch_size
    /\ Concat(yielded) = SubSeq(wordlist, 1, Min(current_index, Len(wordlist)))
    /\ (AfterLoop /\ Exhausted(wordlist, current_index)) => Concat(yielded) = wordlist
    /\ (AfterLoop /\ checked = Len(yielded)) => SubmittedWords = wordlist

\* The loop ended on StopIteration after a short last batch, everything submitted.
C2_Witness ==
    /\ pc = "post_scan"
    /\ checked = Len(yielded)
    /\ Len(yielded) >= 2
    /\ Len(yielded[Len(yielded)]) < batch_size
    /\ Len(tasks) = Len(wordlist)

\* C3 as claimed: every probe submitted after the handler cleared the flag
\* belongs to a batch of which a probe had already been submitted then.
C3_AsClaimed ==
    cancel.set =>
        \A i \in TaskIds : i > cancel.ntasks => tasks[i].batch <= cancel.begun

\* C3 as amended: once the handler has cleared the flag, probes are
\* submitted only for a batch whose cancellation check (line 763) had
\* already passed at that moment; and every probe dispatched has completed
\* when run leaves the executor.
C3_NoBatchAfterObservedCancel ==
    /\ cancel.set => \A i \in TaskIds : tasks[i].batch <= cancel.checked
    /\ (cancel.set /\ pc \in {"post_scan", "finally", "finished", "exited"}) => AllDone

\* Cancelled in a batch: its remaining probes were still submitted, the
\* later batches never were.
C3_Witness ==
    /\ cancel.set
    /\ pc = "post_scan"
    /\ Len(tasks) > cancel.ntasks
    /\ Len(tasks) < Len(wordlist)

\* C4 as claimed: once the handler has cleared the flag, no further result
\* is appended to self.results.
C4_AsClaimed == cancel.set => Len(results) = cancel.nresults

\* C5 as claimed: when run ends after having been cancelled while it was
\* probing, it has not raised, it has returned the results collected
\* before the cancellation, and a history record holding the returned
\* results has been written.
C5_AsClaimed ==
    (cancel.set /\ pc = "finished" /\ wordlist # <<>> /\ asdict_ok) =>
        /\ exc = "none"
        /\ returned.ok
        /\ SubSeq(returned.value, 1, cancel.nresults) = SubSeq(results, 1, cancel.nresults)
        /\ Len(returned.value) >= cancel.nresults
        /\ \E k \in 1..Len(history) : history[k].results = returned.value

\* C6 as claimed: a session (context manager entered, run called once,
\* context left) has added exactly one record to the history store; read
\* here for the sessions in which no history write failed, whether run
\* returned or raised ResourceError.
C6_AsClaimed ==
    (pc = "exited" /\ start_time /\ exc \in {"none", "ResourceError"}) =>
        Len(history) = 1

\* C7 as claimed: every stored session record has total_requests >= found_count.
C7_AsClaimed ==
    \A k \in 1..Len(history) : history[k].total_requests >= history[k].found_count

\* C8 as claimed: every probe a worker has executed went through an
\* admission of the session's RateLimiter, which recorded it.  (No step of
\* run calls wait_time, can_proceed or add_request, so under Spec the
\* limiter's list is never pruned and counts every admission made.)
C8_AsClaimed ==
    Cardinality({i \in TaskIds : tasks[i].state = "done"}) <= Len(requests)

\* Probes that ended in a failure: a failure Result (status 0) or an exception.
FailedTasks ==
    {i \in TaskIds : tasks[i].state = "done" /\ (tasks[i].raised \/ tasks[i].status = 0)}

\* C19: a failing target never aborts run and never makes run raise.  Once
\* a probe has failed, the only exceptions run can end with are those of
\* the history record, every future of the batch is still collected, and
\* a run that ends without exception returns its results.
C19_FailingProbeNeverAbortsRun ==
    FailedTasks # {} =>
        /\ exc \in {"none", "TypeError", "HistoryError"}
        /\ AfterLoop => (fut_idx = Len(futures) /\ AllDone)
        /\ (pc = "finished" /\ exc = "none") => (returned.ok /\ returned.value = results)

\* run has returned although one probe raised and another one ended with
\* a failure Result.
C19_Witness ==
    /\ pc = "finished"
    /\ returned.ok
    /\ \E i \in TaskIds : tasks[i].raised
    /\ \E i \in TaskIds : ~tasks[i].raised /\ tasks[i].status = 0
    /\ \E i \in TaskIds : tasks[i].found

\* The status codes the claim accepts.
AcceptedCodes == {200, 201, 202, 203, 204, 301, 302, 307, 308}
\* The Results of the probes that returned one with found set, in
\* submission order.
FoundResults ==
    LET kept == SelectSeq(tasks, LAMBDA t : t.state = "done" /\ ~t.raised /\ t.found)
    IN [i \in 1..Len(kept) |-> MkResult(kept[i].word, kept[i].status)]

\* C20: for every status code in 0..599 found is true exactly when the
\* code is one of 200-204, 301, 302, 307, 308; the list run returns holds
\* exactly the probed targets whose Result has found set, so every
\* returned Result carries an accepted status code.
C20_ReturnsExactlyFound ==
    /\ \A c \in 0..599 : Found(c) <=> c \in AcceptedCodes
    /\ \A i \in TaskIds :
           (tasks[i].state = "done" /\ ~tasks[i].raised) =>
               (tasks[i].found <=> tasks[i].status \in AcceptedCodes)
    /\ (pc = "finished" /\ returned.ok) =>
           /\ returned.value = FoundResults
           /\ \A j \in 1..Len(returned.value) :
                  returned.value[j].status_code \in AcceptedCodes

\* run has returned one found target out of three probed ones, the others
\* having been rejected and unreachable.
C20_Witness ==
    /\ pc = "finished"
    /\ returned.ok
    /\ Len(returned.value) = 1
    /\ \E i \in TaskIds : ~tasks[i].raised /\ tasks[i].status = 404
    /\ \E i \in TaskIds : ~tasks[i].raised /\ tasks[i].status = 0 /\ tasks[i].state = "done"

\* C22 as claimed: the configuration the pre_scan pipeline returned is the
\* effective one: every batch formed after the hook is cut with its
\* batch_size, and the snapshot stored with the session is that config.
C22_AsClaimed ==
    (pre_cfg # 0) =>
        /\ \A k \in 1..Len(yielded) :
               /\ Len(yielded[k]) <= pre_cfg
               /\ k < Len(yielded) => Len(yielded[k]) = pre_cfg
        /\ \A k \in 1..Len(history) : history[k].config = pre_cfg

\* C23 as claimed: by the time run has left the batch loop the on_result
\* pipeline has been invoked once for every completed probe.
C23_AsClaimed == AfterLoop => hook_calls.on_result = Len(tasks)

\* C24 as claimed: a run that got past wordlist loading has invoked the
\* post_scan pipeline exactly once when it ends; the pipeline is invoked
\* only after every submitted probe has completed, and no history record
\* of the session exists before it has been invoked.
C24_AsClaimed ==
    /\ (pc \in {"finished", "exited"} /\ wordlist # <<>>) => hook_calls.post_scan = 1
    /\ hook_calls.post_scan > 0 => AllDone
    /\ (wordlist # <<>> /\ history # <<>>) => hook_calls.post_scan = 1

\* C27 as claimed: whether or not the history write fails, run returns the
\* results it collected and leaving the context raises nothing (sessions
\* with a wordlist that is not empty and a config asdict accepts).
C27_AsClaimed ==
    (pc \in {"finished", "exited"} /\ wordlist # <<>> /\ asdict_ok) =>
        /\ exc = "none"
        /\ returned.ok
        /\ returned.value = results

\* C29 as claimed: with a wordlist that is empty after loading, run raises
\* ResourceError to its caller, and no hook has been invoked, no batch
\* formed and no probe submitted.
C29_AsClaimed ==
    (pc = "finished" /\ wordlist = <<>>) =>
        /\ exc = "ResourceError"
        /\ hook_calls = NoHookCalls
        /\ yielded = <<>>
        /\ tasks = <<>>

\* ===================================================================
\* Claims checked under SpecLoad
\* ===================================================================
\* The filter as the claim states it: ^[\w.-]+$.
PassesFilter(w) ==
    /\ Len(w) >= 1
    /\ \A i \in 1..Len(w) : w[i] \in {"a", "b", "w", "d", "1", "_", ".", "-"}
Occurrences(seq, w) == Cardinality({i \in 1..Len(seq) : seq[i] = w})
Loaded == pc \notin {"constructed", "entered", "load"} /\ start_time

\* C30: once the wordlist is loaded it holds every occurrence of a word
\* that matches ^[\w.-]+$ once and no other word; a word that fails the
\* filter raises nothing and no probe is ever submitted for it, while, in
\* the absence of cancellation, each occurrence of a matching word has its
\* probe by the end of the batch loop.
C30_FilterGenerates ==
    /\ Loaded =>
           /\ \A w \in RawWords :
                  Occurrences(wordlist, w) = IF PassesFilter(w) THEN Occurrences(raw, w) ELSE 0
           /\ (wordlist # <<>> /\ pc = "pre_scan") => exc = "none"
    /\ \A i \in TaskIds : PassesFilter(tasks[i].word)
    /\ (AfterLoop /\ ~cancel.set) =>
           \A w \in RawWords :
               Occurrences(SubmittedWords, w) = IF PassesFilter(w) THEN Occurrences(raw, w) ELSE 0

\* A file of two lines, one of them "bad word!", has been scanned to the
\* end of the batch loop with one probe.
C30_Witness ==
    /\ Len(raw) = 2
    /\ \E i \in 1..Len(raw) : raw[i] = <<"b", "a", "d", " ", "w", "!">>
    /\ AfterLoop
    /\ ~cancel.set
    /\ Len(tasks) = 1

\* ===================================================================
\* Claims checked under SpecRLSeq and SpecRL
\* ===================================================================
\* C9: with admissions performed one after the other, the timestamps in
\* the limiter that are younger than period never number more than
\* max_requests.
C9_WindowBound == FreshCount(requests, now) <= max_requests

\* A second request has been recorded, after a wait, while the limiter is
\* at its capacity of one.
C9_Witness ==
    /\ callers = 1
    /\ max_requests = 1
    /\ total_requests >= 2
    /\ FreshCount(requests, now) = 1
    /\ now < MaxTime

\* C10 as claimed: with W callers the timestamps recorded within any
\* window of length period number at most max_requests + (W - 1).
C10_AsClaimed == FreshCount(requests, now) <= max_requests + (callers - 1)

\* C11 as claimed: wait_time returns 0 whenever fewer than max_requests
\* timestamps are younger than period, and otherwise the time that remains
\* until the oldest timestamp still in the window expires.
C11_AsClaimed ==
    LET fresh == Prune(requests, now) IN
    WaitTimeCall(requests, now) =
        IF FreshCount(requests, now) < max_requests
           THEN 0
           ELSE period - (now - Oldest(fresh))

\* C16 as claimed: a probe answered from the cache is free for the rate
\* limiter: the step that follows it in _validate_batch records no
\* timestamp.
C16_AsClaimed ==
    [][\A t \in Callers :
          (rl[t].pc = "add" /\ rl[t].hit /\ rl'[t].pc # "add") => requests' = requests]_vars

\* C36 as claimed: every request a caller of _validate_batch records is
\* recorded after a capacity check that succeeded and that took place after
\* the caller's last wait.
C36_AsClaimed == \A t \in Callers : rl[t].pc = "add" => rl[t].ready

\* ===================================================================
\* Claims checked under SpecCache
\* ===================================================================
\* C12: after any sequence of membership tests, gets and puts performed
\* one after the other on a LimitedSizeCache with max_size >= 1, the cache
\* holds at most max_size entries.
C12_SizeBound == Len(cache) <= max_size

\* A put of an absent key has found the cache full and left it full.
C12_Witness ==
    /\ last.op = "put"
    /\ ~last.hit
    /\ last.gone # {}
    /\ Len(cache) = max_size

\* Keys put at least once.
Inserted == {k \in Keys : stamp[k] > 0}

\* C13: the cache behaves as a reference LRU map.  It holds the keys and
\* values the reference map holds; a get or a put of a present key makes
\* that key the most recent and evicts nothing; a put of an absent key
\* into a full cache evicts exactly the least recently used key; once more
\* than max_size distinct keys have been inserted exactly max_size entries
\* remain, and they are the most recently accessed ones.
C13_ReferenceLRU ==
    /\ KeysOf(cache) = RefKeys(ref)
    /\ \A k \in KeysOf(cache) : ValueOf(cache, k) = ref[k]
    /\ (last.op \in {"get", "put"} /\ last.ok) =>
           /\ cache[Len(cache)].key = last.key
           /\ cache[Len(cache)].value = last.value
           /\ last.hit => last.gone = {}
           /\ Cardinality(last.gone) <= 1
    /\ \A i, j \in 1..Len(cache) :
           i < j => stamp[cache[i].key] < stamp[cache[j].key]
    /\ \A k \in KeysOf(cache), j \in Keys \ KeysOf(cache) : stamp[j] < stamp[k]
    /\ Cardinality(Inserted) > max_size => Len(cache) = max_size

\* A put of an absent key into a full cache of two has evicted one key and
\* kept an entry last touched before the previous operation.
C13_Witness ==
    /\ max_size = 2
    /\ last.op = "put"
    /\ ~last.hit
    /\ last.gone # {}
    /\ \E i \in 1..Len(cache) : stamp[cache[i].key] < nops - 1
    /\ Cardinality(Inserted) > max_size

\* ===================================================================
\* Claims checked under SpecProbe
\* ===================================================================
\* C14 as claimed: the operations of the two workers on the shared cache
\* exclude one another, so that under no interleaving of their membership
\* test, get and put steps a get fails on a key its worker has just found
\* present, a put fails and loses its entry, or the cache holds more than
\* max_size entries.
C14_AsClaimed ==
    /\ \A w \in Probers : pw[w].pc # "raised"
    /\ Len(cache) <= max_size

\* C15 as claimed: within one session no target is probed over the network
\* more than once, whether it is repeated in the wordlist, handed to both
\* workers at the same time, or failed the first time.
C15_AsClaimed == \A t \in Targets : netprobes[t] <= 1

\* C17: a probe whose every request failed with a connection error or a
\* timeout has sent exactly retries + 1 requests and ends with one failure
\* Result (status 0, found false); no probe is about to send a request
\* after retries + 1 of them.
C17_RetryBound ==
    \A w \in Probers :
        /\ pw[w].pc = "request" => pw[w].sent <= retries
        /\ (pw[w].pc = "done" /\ pw[w].err = "transient") =>
               /\ pw[w].sent = retries + 1
               /\ pw[w].status = 0
               /\ ~pw[w].found
               /\ ~pw[w].hit

\* With retries >= 1 a probe has ended after failing every time.
C17_Witness ==
    /\ retries >= 1
    /\ \E w \in Probers : pw[w].pc = "done" /\ pw[w].err = "transient"

\* C18: a request error that is neither a connection error nor a timeout
\* ends the probe at once with a failure Result (status 0, found false):
\* no request for the target follows it, whatever the retries left.
C18_TerminalEndsProbe ==
    \A w \in Probers :
        pw[w].err = "terminal" =>
            /\ pw[w].pc = "done"
            /\ pw[w].status = 0
            /\ ~pw[w].found

\* A probe has ended on such an error at its first request, with a retry
\* left.
C18_Witness ==
    /\ retries >= 1
    /\ \E w \in Probers : pw[w].err = "terminal" /\ pw[w].sent = 1

\* ===================================================================
\* Claims checked under SpecHook
\* ===================================================================
\* The plugins having the hook among the first n registered, in order.
Hooked(n) == SelectSeq([j \in 1..n |-> j], LAMBDA j : plugins[j] # "absent")
\* What the plugin of a call handed on: its return value, or, when it
\* raised, the value it was given.
HandedOn(c) ==
    IF c.raised THEN c.arg
    ELSE IF plugins[c.plugin] = "inc" THEN c.arg + 1 ELSE 2 * c.arg

\* C21: run_hook invokes the registered plugins in registration order, the
\* first with the value run_hook was given and each next one with what the
\* previous one returned, or was given if it raised; a raising plugin does
\* not keep any later plugin from being invoked, and run_hook returns.
C21_HookPipeline ==
    hk.pc # "idle" =>
        /\ hk.pc # "raised"
        /\ [i \in 1..Len(hk.calls) |-> hk.calls[i].plugin] = Hooked(hk.idx)
        /\ \A i \in 1..Len(hk.calls) :
               hk.calls[i].arg = IF i = 1 THEN hk.arg ELSE HandedOn(hk.calls[i - 1])
        /\ hk.data = IF hk.calls = <<>> THEN hk.arg
                      ELSE HandedOn(hk.calls[Len(hk.calls)])
        /\ hk.pc = "returned" => hk.idx = Len(plugins)

\* run_hook has returned after three plugins were invoked, the second of
\* which raised.
C21_Witness ==
    /\ hk.pc = "returned"
    /\ Len(hk.calls) = 3
    /\ hk.calls[2].raised
    /\ ~hk.calls[1].raised
    /\ ~hk.calls[3].raised
    /\ hk.data # hk.arg

\* ===================================================================
\* Claims checked under SpecStore
\* ===================================================================
\* C25: add_scan only appends.  A step of add_scan or get_scans leaves
\* every stored session in the table with its fields unchanged, and the
\* stored sessions have pairwise distinct ids.
C25_AppendOnly ==
    [][/\ \A i \in 1..Len(scans) : i <= Len(scans') /\ scans'[i] = scans[i]
       /\ \A i, j \in 1..Len(scans') : i # j => scans'[i].id # scans'[j].id]_vars

\* Three sessions are stored and a get_scans call has listed two of them.
C25_Witness ==
    /\ Len(scans) = 3
    /\ listed.n = 2
    /\ Len(listed.rows) = 2

\* One start time is earlier than another.
Earlier(a, b) == a.s < b.s \/ (a.s = b.s /\ a.us < b.us)
\* The sessions that were stored when get_scans was last called.
StoredThen == SubSeq(scans, 1, listed.n)

\* C26: get_scans(limit) returns min(limit, number of stored sessions)
\* sessions, each a stored session with its start time, none twice, most
\* recent first, and no stored session it leaves out is more recent than
\* one it returns (limit >= 0).
C26_ListMostRecent ==
    LET rows == listed.rows IN
    /\ Len(rows) = Min(listed.limit, listed.n)
    /\ \A i \in 1..Len(rows) :
           \E k \in 1..listed.n :
               StoredThen[k].id = rows[i].id /\ StoredThen[k].at = rows[i].start_time
    /\ \A i, j \in 1..Len(rows) :
           i < j => (rows[i].id # rows[j].id
                     /\ ~Earlier(rows[i].start_time, rows[j].start_time))
    /\ \A k \in 1..listed.n :
           (\A i \in 1..Len(rows) : rows[i].id # StoredThen[k].id) =>
               \A i \in 1..Len(rows) : ~Earlier(rows[i].start_time, StoredThen[k].at)

\* get_scans(2) has answered on three stored sessions, the one it left out
\* being the first one stored, and the times 9 and 10 seconds being both
\* among the stored ones.
C26_Witness ==
    /\ listed.limit = 2
    /\ listed.n = 3
    /\ \A i \in 1..2 : listed.rows[i].id # 1
    /\ \E k \in 1..3 : scans[k].at.s = 9
    /\ \E k \in 1..3 : scans[k].at.s = 10
    /\ \E k \in 1..3 : scans[k].at.us # 0

\* ===================================================================
\* Claims checked under SpecConfig
\* ===================================================================
\* The thread counts of the inputs that are integers from 1 to 100, as
\* integers or written as text.
GoodCounts ==
    {[kind |-> "int", v |-> n, t |-> <<>>] : n \in {1, 2, 100}}
        \cup {[kind |-> "str", v |-> 0, t |-> <<"5">>]}
\* The modes of the inputs that spell directory or subdomain.
GoodModes == {"directory", "subdomain", "Directory", "SUBDOMAIN"}
InvalidInput == cfg_in.threads \notin GoodCounts \/ cfg_in.mode \notin GoodModes

\* C28: with a thread count that is not an integer from 1 to 100, or a
\* mode that is neither directory nor subdomain, no worker is ever started
\* and no request issued, and once Config(...) has been called and has
\* ended, it has ended with ConfigError.
C28_InvalidConfigRaises ==
    InvalidInput =>
        /\ cfg_out.workers = 0
        /\ cfg_out.requests = 0
        /\ cfg_out.pc \notin {"scan", "running", "done"}
        /\ (cfg_out.built /\ cfg_out.pc = "raised") => cfg_out.error = "ConfigError"

\* Config(...) raised ConfigError on the thread count 0 with a good mode,
\* and on the mode dns after the thread count 100 was accepted.
C28_Witness ==
    /\ cfg_out.pc = "raised"
    /\ cfg_out.error = "ConfigError"
    /\ \/ cfg_in.threads = [kind |-> "int", v |-> 0, t |-> <<>>] /\ cfg_in.mode = "directory"
       \/ cfg_in.threads = [kind |-> "int", v |-> 100, t |-> <<>>] /\ cfg_in.mode = "dns"

\* ===================================================================
\* Further claims checked under Spec
\* ===================================================================
\* The batch a word of the wordlist belongs to, counted from 1.
BatchOf(w) ==
    LET k == CHOOSE i \in 1..Len(wordlist) : wordlist[i] = w IN
    ((k - 1) \div batch_size) + 1
\* The results of a list come in the order of their targets' batches.
InBatchOrder(rs) ==
    \A a, b \in 1..Len(rs) : a < b => BatchOf(rs[a].target) <= BatchOf(rs[b].target)

\* C31: self.results, and the list run returns, keep batch order: a result
\* of a target of batch i comes before every result of a target of a later
\* batch, however the workers finish inside a batch.
C31_BatchOrder ==
    /\ InBatchOrder(results)
    /\ returned.ok => InBatchOrder(returned.value)

\* run has returned three results of two batches that two workers probed.
C31_Witness ==
    /\ returned.ok
    /\ threads = 2
    /\ batch_size = 2
    /\ Len(returned.value) = 3

\* The positions of the main thread inside run.
InRun ==
    {"load", "pre_scan", "next_batch", "check", "submit", "collect",
     "shutdown", "post_scan", "finally"}
\* A step in which neither the main thread nor a worker moves: the handler.
HandlerStep ==
    /\ pc' = pc
    /\ tasks' = tasks
    /\ sub_idx' = sub_idx
    /\ fut_idx' = fut_idx

\* C35: after every step the flag _running is set only inside run; a
\* delivery of the interrupt leaves _running false, and a delivery while
\* _running is false changes no field of the Bruteforcer.
C35_InterruptIdempotent ==
    [][/\ running' => pc' \in InRun
       /\ HandlerStep =>
             /\ ~running'
             /\ ~running => UNCHANGED <<running, start_time, total_requests,
                                        results, history, exc, returned>>]_vars

\* The interrupt was delivered during run, which went on to its end.
C35_Witness ==
    /\ cancel.set
    /\ cancel.ntasks = 1
    /\ pc = "finished"
    /\ ~running

\* ===================================================================
\* Claims checked under SpecFair
\* ===================================================================
\* ceil(n / b)
Ceil(n, b) == (n + b - 1) \div b

\* C38 as claimed: when run has ended it has processed
\* ceil(n / batch_size) batches.
C38_AsClaimed == pc = "finished" => checked = Ceil(Len(wordlist), batch_size)

\* C38: run terminates.  Once run has loaded the wordlist it reaches its
\* end, having processed at most ceil(n / batch_size) batches, and exactly
\* that many when it returns without having been interrupted; it has
\* returned or raised, and _running is false.
C38_RunTerminates ==
    (pc = "load") ~>
        (/\ pc = "finished"
         /\ ~running
         /\ returned.ok \/ exc # "none"
         /\ checked <= Ceil(Len(wordlist), batch_size)
         /\ (returned.ok /\ ~cancel.set) => checked = Ceil(Len(wordlist), batch_size))

\* run has returned after two batches of a wordlist of three words.
C38_Witness ==
    /\ pc = "finished"
    /\ returned.ok
    /\ ~cancel.set
    /\ Len(wordlist) = 3
    /\ batch_size = 2
    /\ checked = 2

\* ===================================================================
\* Claims checked under SpecRerun
\* ===================================================================
\* The targets probed during the current run() call.
ProbedNow == {tasks[i].word : i \in TaskIds}
TargetsOf(rs) == {rs[k].target : k \in 1..Len(rs)}

\* C39 as claimed: what run returns, and the results and found_count saved
\* for the call, hold only targets probed during that call.
C39_AsClaimed ==
    /\ returned.ok => TargetsOf(returned.value) \subseteq ProbedNow
    /\ \A h \in 1..Len(history) :
          history[h].run = run_no =>
              /\ TargetsOf(history[h].results) \subseteq ProbedNow
              /\ history[h].found_count <= Cardinality(ProbedNow)

\* ===================================================================
\* Claims checked under SpecReport
\* ===================================================================
\* The step is a call of the given hook.
Called(h) == rcall'.n = rcall.n + 1 /\ rcall'.hook = h

\* C33: on_result on a record the validator accepts, during an active
\* scan, returns the record, adds one to metrics.total_requests, and adds
\* one to metrics.found_count when the record has found = true and nothing
\* otherwise.
C33_OnResultCounts ==
    [][(Called("on_result") /\ rp.scan /\ validate_result(rcall'.arg)) =>
          /\ rcall'.ret = rcall'.arg
          /\ rp'.metrics.total_requests = rp.metrics.total_requests + 1
          /\ rp'.metrics.found_count =
                 rp.metrics.found_count + (IF rcall'.arg.found THEN 1 ELSE 0)]_vars

\* on_result has counted a found record and then one that was not found.
C33_Witness ==
    /\ rcall.hook = "on_result"
    /\ validate_result(rcall.arg)
    /\ ~rcall.arg.found
    /\ rp.scan
    /\ rp.metrics.total_requests = 2
    /\ rp.metrics.found_count = 1

\* A record of a network failure: every required key, a target and a
\* content type the validator accepts, status_code 0, found = false.
NetworkFailure(r) ==
    /\ r.complete
    /\ validate_target(r.target)
    /\ validate_content_type(r.content_type)
    /\ r.status_code = 0
    /\ ~r.found

\* C37 as claimed: on_result on a record of a network failure, during an
\* active scan, adds one to metrics.total_requests and one to
\* metrics.errors.
C37_AsClaimed ==
    [][(Called("on_result") /\ rp.scan /\ NetworkFailure(rcall'.arg)) =>
          /\ rp'.metrics.total_requests = rp.metrics.total_requests + 1
          /\ rp'.metrics.errors = rp.metrics.errors + 1]_vars

\* C40: post_scan returns the list it was given and leaves current_scan
\* and metrics unset, whether or not the report generation failed;
\* on_result and post_scan called while no scan is active return what they
\* were given and change neither current_scan nor metrics.
C40_Lifecycle ==
    [][/\ Called("post_scan") =>
             /\ rcall'.ret = rcall'.arg
             /\ ~rp'.scan
             /\ ~rp'.metrics.on
       /\ ((Called("on_result") \/ Called("post_scan")) /\ ~rp.scan) =>
             /\ rcall'.ret = rcall'.arg
             /\ rp' = rp]_vars

\* pre_scan, on_result and post_scan have been called in this order.
C40_Witness ==
    /\ rcall.n = 3
    /\ rcall.hook = "post_scan"
    /\ ~rp.scan

\* ===================================================================
\* Claims checked under SpecWrite
\* ===================================================================
\* Every call has returned or raised.
AllEnded == \A k \in Writers : wcalls[k].pc \in {"returned", "raised"}

\* C34 as claimed: a call's rename leaves its own content at its path and
\* nothing at its temporary path; a failed call removes the temporary file
\* it opened itself and raises the exception it failed with; when every
\* call has ended no temporary file is left.
C34_AsClaimed ==
    [][\A k \in Writers :
          LET p == wcalls[k].path
              t == TempOf(p) IN
          /\ (WAt(k, "rename") /\ wcalls'[k].pc = "release") =>
                 (files'[p] = [owner |-> k, full |-> TRUE] /\ files'[t] = Absent)
          /\ (WAt(k, "unlink") /\ wcalls'[k].pc = "raised") =>
                 (files[t].owner = k /\ wcalls'[k].err = wcalls[k].err)
          /\ AllEnded' => \A q \in Dests : files'[TempOf(q)] = Absent]_vars

\* ===================================================================
\* Claims checked under SpecBuffer
\* ===================================================================
\* C32 as claimed: whatever is handed to write while the buffer is running
\* is eventually in the file at its path, exactly.
HandedLive(c) == Len(wq.sent) >= c /\ wq.sent[c].live
Written(c) == c \in wq.landed
C32_AsClaimed == \A c \in 1..MaxWrites : HandedLive(c) ~> Written(c)

====
